---- MODULE Spec2Model ----
(***************************************************************************)
(* gopulse: the HealthAggregator (status store, update pipeline, auto-check *)
(* scheduler, priority-ordered queries) as a state machine.                 *)
(*                                                                          *)
(* Time is a global integer clock `now`, advanced by Tick.  Every critical  *)
(* section of ha.mu is one atomic action; the code between two critical     *)
(* sections or blocking points is a separate action, so that every          *)
(* interleaving of the goroutines is a behaviour of the model.              *)
(***************************************************************************)
EXTENDS Integers, Sequences, FiniteSets, TLC

(***************************************************************************)
(* Bounds of the model and the configuration under which it is explored.    *)
(***************************************************************************)
MaxOps == 4           \* calls of RegisterHealthCheck and UpdateHealth plus clock ticks
MaxFairOps == 3        \* the same budget under the fair specification
MaxAutoOps == 3       \* the same, with auto-update enabled
MaxQueryOps == 3       \* the same budget, with callers of the queries
MaxMixedOps == 3       \* the same budget, auto-update with callers of UpdateHealth
MaxLiveRounds == 2     \* rounds of autoUpdate under the fair specification
MaxLiveRegs == 2       \* calls of RegisterHealthCheck under the fair specification
MaxRestartOps == 3     \* the same budget, with Start called twice
MaxPipeOps == 4        \* the same budget, with a channel of two slots
MaxRetryTicks == 5    \* clock ticks under the specification of failing probes
ExpiryTime == 1       \* Config.ExpiryTime, in clock units
UpdateBuffer == 1     \* Config.UpdateBuffer, capacity of updateChannel
CheckInterval == 2    \* Config.CheckInterval, in clock units
InitialDelay == 1     \* Config.InitialDelay, in clock units
MaxBackoff == 2       \* Config.MaxBackoff, in clock units
BackoffFactor == <<2, 1>>   \* Config.BackoffFactor, a float64: 2.0 as a ratio

\* Config.OnStatusChange is configured (non-nil)
OnStatusChange == TRUE

\* the Config the options of the default exploration produce
DefaultConfig ==
  [ExpiryTime |-> ExpiryTime, UpdateBuffer |-> UpdateBuffer,
   CheckInterval |-> CheckInterval, InitialDelay |-> InitialDelay,
   MaxBackoff |-> MaxBackoff, BackoffFactor |-> BackoffFactor]

\* The callers' tasks that call UpdateHealth
Producers == {"p1"}

\* The HealthChecker objects handed to the aggregator
Checkers == {"c1", "c2"}

\* HealthChecker.Name(): the identity a checker reports
Name(c) == IF c = "c1" THEN "db" ELSE "cache"

Names == {Name(c) : c \in Checkers}

PriorityCritical == 0
PriorityHigh == 1
PriorityMedium == 2
PriorityLow == 3
Priorities == {PriorityCritical, PriorityHigh, PriorityMedium, PriorityLow}

\* error values: nil, and the error objects checkers and callers supply
Nil == "nil"
ProbeErrors == {"e1", "e2"}
ErrHealthCheckExpired == "health check has expired"

\* the nil map[string]error / an empty one
NoErrors == <<>>

VARIABLES
  config,            \* ha.config
  mu,                \* ha.mu: who holds the write lock
  query,             \* the caller of the queries: [pc, op, liveness, readiness]
  now,               \* time.Now()
  statuses,          \* ha.statuses: name -> *HealthStatus
  checkers,          \* ha.checkers: name -> HealthChecker (the roster)
  backoffTimes,      \* ha.backoffTimes: name -> duration
  lastCheckAttempt,  \* ha.lastCheckAttempt: name -> time
  updateChannel,     \* ha.updateChannel: buffered channel of *HealthStatus
  cancelled,         \* ha.ctx is Done
  started,           \* Start() has been called
  consumer2,         \* the processUpdates goroutine of a second call of Start()
  consumer,          \* the processUpdates goroutine: [pc, status]
  prod,              \* the callers inside UpdateHealth: p -> [pc, ...]
  sched,             \* the autoUpdate goroutine
  ticker,            \* autoUpdate's time.Ticker
  checkCount,        \* per checker, number of probe invocations
  nRegister,         \* RegisterHealthCheck calls so far
  nSubmit,           \* UpdateHealth calls made by callers so far
  nAlloc,            \* HealthStatus updates allocated by UpdateHealth so far
  submitted,         \* history: the names UpdateHealth found registered
  applied,           \* history: <<name, ptr>> of the updates written to the store
  cbLog              \* history: <<name, ptr>> of the OnStatusChange invocations

vars == <<config, mu, query, now, statuses, checkers, backoffTimes, lastCheckAttempt, updateChannel,
          cancelled, started, consumer2, consumer, prod, sched, ticker, checkCount,
          nRegister, nSubmit, nAlloc, submitted, applied, cbLog>>

storeVars == <<statuses, checkers>>
backoffVars == <<backoffTimes, lastCheckAttempt>>
lifeVars == <<cancelled, started, consumer2>>
schedVars == <<sched, ticker, checkCount>>
callVars == <<nRegister, nSubmit>>
histVars == <<submitted, applied, cbLog>>

(***************************************************************************)
(* HealthStatus values.  `ptr` is the identity of the allocated struct: the *)
(* store and the channel hold pointers.  Updates allocated by UpdateHealth  *)
(* are numbered from 1; the struct allocated by RegisterHealthCheck is 0.   *)
(***************************************************************************)
\* a registration that starts out healthy
NewStatusHealthy(checker, priority, t) ==
  [Checker |-> checker, Priority |-> priority, Liveness |-> TRUE,
   Readiness |-> TRUE, LastUpdate |-> t, LivenessErr |-> Nil,
   ReadinessErr |-> Nil, ptr |-> 0]

NewStatus(checker, priority, t) ==
  [Checker |-> checker, Priority |-> priority, Liveness |-> FALSE,
   Readiness |-> FALSE, LastUpdate |-> t, LivenessErr |-> Nil,
   ReadinessErr |-> Nil, ptr |-> 0]

\* an update whose axes are left at their zero value
UpdateStatusAxesUnset(checker, priority, livenessErr, readinessErr, t, ptr) ==
  [Checker |-> checker, Priority |-> priority, Liveness |-> FALSE,
   Readiness |-> FALSE, LastUpdate |-> t,
   LivenessErr |-> livenessErr, ReadinessErr |-> readinessErr, ptr |-> ptr]

UpdateStatus(checker, priority, livenessErr, readinessErr, t, ptr) ==
  [Checker |-> checker, Priority |-> priority, Liveness |-> (livenessErr = Nil),
   Readiness |-> (readinessErr = Nil), LastUpdate |-> t,
   LivenessErr |-> livenessErr, ReadinessErr |-> readinessErr, ptr |-> ptr]

NoStatus == [ptr |-> -1]

\* m[k] = v on a Go map
MapSet(m, k, v) == (k :> v) @@ m

\* the local variables of one UpdateHealth call
NoCall == [pc |-> "idle", checker |-> "none", livenessErr |-> Nil,
           readinessErr |-> Nil, priority |-> 0, status |-> NoStatus]

IdleConsumer == [pc |-> "idle", status |-> NoStatus]

\* ha.mu is not held.  Every critical section of the code is one action, so
\* a lock taken and released inside it is free again in the next state.
Free == "free"
MuFree == mu = Free

\* the query caller before its first call; NoResult: nothing returned yet.
\* `at` is history: while GetOverallHealth is between its two calls, the
\* store and the clock its GetLiveness read, and the number of writes of the
\* store (registrations and applied updates) made until then
NoResult == <<>>
NoSnapshot == <<>>
IdleQuery == [pc |-> "idle", op |-> "none", liveness |-> NoResult,
              readiness |-> NoResult, at |-> NoSnapshot]

\* the autoUpdate goroutine: where it is, the deadline of its initial delay,
\* the rest of the round's snapshot, the locals of checkHealth and of the
\* UpdateHealth call inside it; `round`, `roster`, `cycled` and `streak` are
\* history: the rounds begun, the roster the current round copied, the
\* checkers it has called checkHealth for, and per name the number of
\* consecutive executed cycles that failed
IdleScheduler == [pc |-> "idle", timer |-> 0, queue |-> <<>>, checker |-> "none",
                  t |-> 0, backoff |-> 0, livenessErr |-> Nil, readinessErr |-> Nil,
                  call |-> NoCall, round |-> 0, roster |-> {}, cycled |-> {},
                  streak |-> <<>>]

(***************************************************************************)
(* GetLiveness and GetReadiness.  `order` is the order in which `range      *)
(* ha.statuses` yields the names: Go leaves it unspecified, so a call picks *)
(* any.  (Each tier ranges over the map anew; as a name is in one tier only, *)
(* one order of all names stands for the orders of all four ranges.)        *)
(***************************************************************************)
\* a scan that starts at the lowest tier
PriorityOrderReversed == <<PriorityLow, PriorityMedium, PriorityHigh, PriorityCritical>>

PriorityOrder == <<PriorityCritical, PriorityHigh, PriorityMedium, PriorityLow>>

Orders(S) == {o \in [1..Cardinality(S) -> S] : \A i, j \in DOMAIN o : o[i] = o[j] => i = j}

\* no expiry check
ExpiredNever(status, t) == FALSE

Expired(status, t) == t - status.LastUpdate > config.ExpiryTime

NoFailure == [found |-> FALSE]

\* the inner loop of GetReadiness pasted into GetLiveness: the other axis' error
RECURSIVE LivenessRangeOtherErr(_, _, _, _, _)
LivenessRangeOtherErr(st, t, order, i, priority) ==
  IF i > Len(order) THEN NoFailure
  ELSE LET name == order[i]
           status == st[name]
       IN IF status.Priority # priority
            THEN LivenessRangeOtherErr(st, t, order, i + 1, priority)
          ELSE IF Expired(status, t)
            THEN [found |-> TRUE, name |-> name, err |-> ErrHealthCheckExpired]
          ELSE IF ~status.Liveness
            THEN [found |-> TRUE, name |-> name, err |-> status.ReadinessErr]
          ELSE LivenessRangeOtherErr(st, t, order, i + 1, priority)

\* the inner loop with the axis looked at before the age of the record
RECURSIVE LivenessRangeAxisFirst(_, _, _, _, _)
LivenessRangeAxisFirst(st, t, order, i, priority) ==
  IF i > Len(order) THEN NoFailure
  ELSE LET name == order[i]
           status == st[name]
       IN IF status.Priority # priority
            THEN LivenessRangeAxisFirst(st, t, order, i + 1, priority)
          ELSE IF ~status.Liveness
            THEN [found |-> TRUE, name |-> name, err |-> status.LivenessErr]
          ELSE IF Expired(status, t)
            THEN [found |-> TRUE, name |-> name, err |-> ErrHealthCheckExpired]
          ELSE LivenessRangeAxisFirst(st, t, order, i + 1, priority)

\* the inner loop of GetLiveness for one priority, from position i of the order
RECURSIVE LivenessRange(_, _, _, _, _)
LivenessRange(st, t, order, i, priority) ==
  IF i > Len(order) THEN NoFailure
  ELSE LET name == order[i]
           status == st[name]
       IN IF status.Priority # priority
            THEN LivenessRange(st, t, order, i + 1, priority)
          ELSE IF Expired(status, t)
            THEN [found |-> TRUE, name |-> name, err |-> ErrHealthCheckExpired]
          ELSE IF ~status.Liveness
            THEN [found |-> TRUE, name |-> name, err |-> status.LivenessErr]
          ELSE LivenessRange(st, t, order, i + 1, priority)

\* a scan that records a failure and goes on to the next tier
RECURSIVE LivenessTiersNoReturn(_, _, _, _)
LivenessTiersNoReturn(st, t, order, k) ==
  IF k > Len(PriorityOrder) THEN <<TRUE, NoErrors>>
  ELSE LET r == LivenessRange(st, t, order, 1, PriorityOrder[k])
           rest == LivenessTiersNoReturn(st, t, order, k + 1)
       IN IF r.found THEN <<FALSE, (r.name :> r.err) @@ rest[2]>> ELSE rest

RECURSIVE LivenessTiers(_, _, _, _)
LivenessTiers(st, t, order, k) ==
  IF k > Len(PriorityOrder) THEN <<TRUE, NoErrors>>
  ELSE LET r == LivenessRange(st, t, order, 1, PriorityOrder[k])
       IN IF r.found THEN <<FALSE, r.name :> r.err>>
                     ELSE LivenessTiers(st, t, order, k + 1)

GetLiveness(st, t, order) == LivenessTiers(st, t, order, 1)

RECURSIVE ReadinessRange(_, _, _, _, _)
ReadinessRange(st, t, order, i, priority) ==
  IF i > Len(order) THEN NoFailure
  ELSE LET name == order[i]
           status == st[name]
       IN IF status.Priority # priority
            THEN ReadinessRange(st, t, order, i + 1, priority)
          ELSE IF Expired(status, t)
            THEN [found |-> TRUE, name |-> name, err |-> ErrHealthCheckExpired]
          ELSE IF ~status.Readiness
            THEN [found |-> TRUE, name |-> name, err |-> status.ReadinessErr]
          ELSE ReadinessRange(st, t, order, i + 1, priority)

RECURSIVE ReadinessTiers(_, _, _, _)
ReadinessTiers(st, t, order, k) ==
  IF k > Len(PriorityOrder) THEN <<TRUE, NoErrors>>
  ELSE LET r == ReadinessRange(st, t, order, 1, PriorityOrder[k])
       IN IF r.found THEN <<FALSE, r.name :> r.err>>
                     ELSE ReadinessTiers(st, t, order, k + 1)

GetReadiness(st, t, order) == ReadinessTiers(st, t, order, 1)

\* NewHealthAggregator with the options that produce cfg
NewHealthAggregator(cfg) ==
  /\ config = cfg
  /\ mu = Free
  /\ query = IdleQuery
  /\ now = 0
  /\ statuses = <<>>
  /\ checkers = <<>>
  /\ backoffTimes = <<>>
  /\ lastCheckAttempt = <<>>
  /\ updateChannel = <<>>
  /\ cancelled = FALSE
  /\ started = FALSE
  /\ consumer2 = IdleConsumer
  /\ consumer = IdleConsumer
  /\ prod = [p \in Producers |-> NoCall]
  /\ sched = IdleScheduler
  /\ ticker = [on |-> FALSE, next |-> 0, pending |-> FALSE]
  /\ checkCount = [c \in Checkers |-> 0]
  /\ nRegister = 0
  /\ nSubmit = 0
  /\ nAlloc = 0
  /\ submitted = {}
  /\ applied = <<>>
  /\ cbLog = <<>>

Init == NewHealthAggregator(DefaultConfig)

(***************************************************************************)
(* The clock.  A running ticker fires every CheckInterval into a channel of *)
(* capacity one: a tick that finds the previous one unread is dropped.      *)
(***************************************************************************)
Tick ==
  /\ now' = now + 1
  /\ ticker' = IF ticker.on /\ now + 1 >= ticker.next
                 THEN [ticker EXCEPT !.pending = TRUE,
                                     !.next = ticker.next + config.CheckInterval]
                 ELSE ticker
  /\ UNCHANGED <<config, mu, query, storeVars, backoffVars, updateChannel, lifeVars, consumer, prod,
                 sched, checkCount, callVars, nAlloc, histVars>>

(***************************************************************************)
(* RegisterHealthCheck                                                      *)
(***************************************************************************)
\* a registration that leaves an existing entry as it is
RegisterIfAbsent(checker, priority) ==
  /\ nRegister' = nRegister + 1
  /\ checkers' = MapSet(checkers, Name(checker), checker)
  /\ statuses' = IF Name(checker) \in DOMAIN statuses THEN statuses
                  ELSE MapSet(statuses, Name(checker), NewStatus(checker, priority, now))
  /\ UNCHANGED <<config, mu, query, now, backoffVars, updateChannel, lifeVars, consumer, prod,
                 schedVars, nSubmit, nAlloc, histVars>>

\* a registration that clears the backoff of the name
RegisterResetsBackoff(checker, priority) ==
  /\ MuFree
  /\ nRegister' = nRegister + 1
  /\ checkers' = MapSet(checkers, Name(checker), checker)
  /\ statuses' = MapSet(statuses, Name(checker), NewStatus(checker, priority, now))
  /\ backoffTimes' = IF Name(checker) \in DOMAIN backoffTimes
                       THEN MapSet(backoffTimes, Name(checker), 0) ELSE backoffTimes
  /\ UNCHANGED <<config, mu, query, now, lastCheckAttempt, updateChannel, lifeVars, consumer,
                 prod, schedVars, nSubmit, nAlloc, histVars>>

RegisterHealthCheck(checker, priority) ==
  /\ MuFree
  /\ nRegister' = nRegister + 1
  /\ checkers' = MapSet(checkers, Name(checker), checker)
  /\ statuses' = MapSet(statuses, Name(checker), NewStatus(checker, priority, now))
  /\ UNCHANGED <<config, mu, query, now, backoffVars, updateChannel, lifeVars, consumer, prod,
                 schedVars, nSubmit, nAlloc, histVars>>

(***************************************************************************)
(* Start with auto-update disabled, and Stop                                *)
(***************************************************************************)
Start ==
  /\ ~started
  /\ started' = TRUE
  /\ consumer' = [consumer EXCEPT !.pc = "select"]
  /\ UNCHANGED <<config, mu, query, now, storeVars, backoffVars, updateChannel, cancelled,
                 consumer2, prod, schedVars, callVars, nAlloc, histVars>>

Stop ==
  /\ cancelled' = TRUE
  /\ UNCHANGED <<config, mu, query, now, storeVars, backoffVars, updateChannel, started,
                 consumer2, consumer, prod, schedVars, callVars, nAlloc, histVars>>

(***************************************************************************)
(* UpdateHealth: the read of the registration under the read lock, the      *)
(* construction of the update, the channel send.  `call` holds the caller's *)
(* local variables.                                                         *)
(***************************************************************************)
\* the lookup without the early return for an unknown checker
UpdateHealthLookupNoReturn(checker, livenessErr, readinessErr) ==
  [pc |-> "build", checker |-> checker, livenessErr |-> livenessErr,
   readinessErr |-> readinessErr,
   priority |-> IF Name(checker) \in DOMAIN statuses
                  THEN statuses[Name(checker)].Priority ELSE PriorityCritical,
   status |-> NoStatus]

\* lines 168-174: the call's locals after the lookup; NoCall when it returns
UpdateHealthLookup(checker, livenessErr, readinessErr) ==
  IF Name(checker) \in DOMAIN statuses
    THEN [pc |-> "build", checker |-> checker, livenessErr |-> livenessErr,
          readinessErr |-> readinessErr,
          priority |-> statuses[Name(checker)].Priority, status |-> NoStatus]
    ELSE NoCall

\* an update built with the two errors exchanged
UpdateHealthValueSwapped(call) ==
  [call EXCEPT !.pc = "send",
               !.status = UpdateStatus(call.checker, call.priority, call.readinessErr,
                                       call.livenessErr, now, nAlloc + 1)]

\* lines 176-184: the operand of the send is evaluated
UpdateHealthValue(call) ==
  [call EXCEPT !.pc = "send",
               !.status = UpdateStatus(call.checker, call.priority, call.livenessErr,
                                       call.readinessErr, now, nAlloc + 1)]

UpdateHealthRead(p, checker, livenessErr, readinessErr) ==
  /\ MuFree
  /\ prod[p].pc = "idle"
  /\ nSubmit' = nSubmit + 1
  /\ submitted' = IF Name(checker) \in DOMAIN statuses
                    THEN submitted \cup {Name(checker)} ELSE submitted
  /\ prod' = [prod EXCEPT ![p] = UpdateHealthLookup(checker, livenessErr, readinessErr)]
  /\ UNCHANGED <<config, mu, query, now, storeVars, backoffVars, updateChannel, lifeVars, consumer,
                 schedVars, nRegister, nAlloc, applied, cbLog>>

UpdateHealthBuild(p) ==
  /\ prod[p].pc = "build"
  /\ prod' = [prod EXCEPT ![p] = UpdateHealthValue(prod[p])]
  /\ nAlloc' = nAlloc + 1
  /\ UNCHANGED <<config, mu, query, now, storeVars, backoffVars, updateChannel, lifeVars, consumer,
                 schedVars, callVars, histVars>>

\* a send that gives up when the channel is full
UpdateHealthSendOrDrop(p) ==
  /\ prod[p].pc = "send"
  /\ updateChannel' = IF Len(updateChannel) < config.UpdateBuffer
                         THEN Append(updateChannel, prod[p].status)
                         ELSE updateChannel
  /\ prod' = [prod EXCEPT ![p] = NoCall]
  /\ UNCHANGED <<config, mu, query, now, storeVars, backoffVars, lifeVars, consumer, schedVars,
                 callVars, nAlloc, histVars>>

UpdateHealthSend(p) ==
  /\ prod[p].pc = "send"
  /\ Len(updateChannel) < config.UpdateBuffer
  /\ updateChannel' = Append(updateChannel, prod[p].status)
  /\ prod' = [prod EXCEPT ![p] = NoCall]
  /\ UNCHANGED <<config, mu, query, now, storeVars, backoffVars, lifeVars, consumer, schedVars,
                 callVars, nAlloc, histVars>>

(***************************************************************************)
(* processUpdates: the select, the store write under the lock, the callback *)
(***************************************************************************)
ProcessDone ==
  /\ consumer.pc = "select"
  /\ cancelled
  /\ consumer' = [consumer EXCEPT !.pc = "done"]
  /\ UNCHANGED <<config, mu, query, now, storeVars, backoffVars, updateChannel, lifeVars, prod,
                 schedVars, callVars, nAlloc, histVars>>

\* a receive that takes the most recently sent update
ProcessReceiveNewest ==
  /\ consumer.pc = "select"
  /\ updateChannel # <<>>
  /\ consumer' = [pc |-> "apply", status |-> updateChannel[Len(updateChannel)]]
  /\ updateChannel' = SubSeq(updateChannel, 1, Len(updateChannel) - 1)
  /\ UNCHANGED <<config, mu, query, now, storeVars, backoffVars, lifeVars, prod, schedVars,
                 callVars, nAlloc, histVars>>

ProcessReceive ==
  /\ consumer.pc = "select"
  /\ updateChannel # <<>>
  /\ consumer' = [pc |-> "apply", status |-> Head(updateChannel)]
  /\ updateChannel' = Tail(updateChannel)
  /\ UNCHANGED <<config, mu, query, now, storeVars, backoffVars, lifeVars, prod, schedVars,
                 callVars, nAlloc, histVars>>

\* a write that replaces the whole map
ProcessWriteOnly(status) == Name(status.Checker) :> status

\* lines 263-266: the store after the write
ProcessWrite(status) == MapSet(statuses, Name(status.Checker), status)

\* a write that returns to the callback with ha.mu still held
ProcessApplyLocked ==
  /\ consumer.pc = "apply"
  /\ MuFree
  /\ mu' = "processUpdates"
  /\ statuses' = ProcessWrite(consumer.status)
  /\ applied' = Append(applied, <<Name(consumer.status.Checker), consumer.status.ptr>>)
  /\ consumer' = IF OnStatusChange THEN [consumer EXCEPT !.pc = "callback"]
                                   ELSE [pc |-> "select", status |-> NoStatus]
  /\ UNCHANGED <<config, query, now, checkers, backoffVars, updateChannel, lifeVars, prod,
                 schedVars, callVars, nAlloc, submitted, cbLog>>

ProcessApply ==
  /\ consumer.pc = "apply"
  /\ MuFree
  /\ mu' = Free
  /\ statuses' = ProcessWrite(consumer.status)
  /\ applied' = Append(applied, <<Name(consumer.status.Checker), consumer.status.ptr>>)
  /\ consumer' = IF OnStatusChange THEN [consumer EXCEPT !.pc = "callback"]
                                   ELSE [pc |-> "select", status |-> NoStatus]
  /\ UNCHANGED <<config, query, now, checkers, backoffVars, updateChannel, lifeVars, prod,
                 schedVars, callVars, nAlloc, submitted, cbLog>>

\* a consumer that notifies twice
ProcessCallbackTwice ==
  /\ consumer.pc = "callback"
  /\ cbLog' = cbLog \o << <<Name(consumer.status.Checker), consumer.status.ptr>>,
                          <<Name(consumer.status.Checker), consumer.status.ptr>> >>
  /\ consumer' = [pc |-> "select", status |-> NoStatus]
  /\ UNCHANGED <<config, mu, query, now, storeVars, backoffVars, updateChannel, lifeVars, prod,
                 schedVars, callVars, nAlloc, submitted, applied>>

ProcessCallback ==
  /\ consumer.pc = "callback"
  /\ cbLog' = Append(cbLog, <<Name(consumer.status.Checker), consumer.status.ptr>>)
  /\ consumer' = [pc |-> "select", status |-> NoStatus]
  /\ UNCHANGED <<config, mu, query, now, storeVars, backoffVars, updateChannel, lifeVars, prod,
                 schedVars, callVars, nAlloc, submitted, applied>>

(***************************************************************************)
(* Start called again.  Start has no guard (lines 140-145): every call      *)
(* launches a processUpdates goroutine.  consumer2 is the goroutine of the  *)
(* second call; its steps are those of processUpdates.                      *)
(***************************************************************************)
StartAgain ==
  /\ started
  /\ consumer2.pc = "idle"
  /\ consumer2' = [consumer2 EXCEPT !.pc = "select"]
  /\ UNCHANGED <<config, mu, query, now, storeVars, backoffVars, updateChannel, cancelled,
                 started, consumer, prod, schedVars, callVars, nAlloc, histVars>>

ProcessDone2 ==
  /\ consumer2.pc = "select"
  /\ cancelled
  /\ consumer2' = [consumer2 EXCEPT !.pc = "done"]
  /\ UNCHANGED <<config, mu, query, now, storeVars, backoffVars, updateChannel, cancelled, started,
                 consumer, prod, schedVars, callVars, nAlloc, histVars>>

ProcessReceive2 ==
  /\ consumer2.pc = "select"
  /\ updateChannel # <<>>
  /\ consumer2' = [pc |-> "apply", status |-> Head(updateChannel)]
  /\ updateChannel' = Tail(updateChannel)
  /\ UNCHANGED <<config, mu, query, now, storeVars, backoffVars, cancelled, started, consumer,
                 prod, schedVars, callVars, nAlloc, histVars>>

ProcessApply2 ==
  /\ consumer2.pc = "apply"
  /\ MuFree
  /\ mu' = Free
  /\ statuses' = ProcessWrite(consumer2.status)
  /\ applied' = Append(applied, <<Name(consumer2.status.Checker), consumer2.status.ptr>>)
  /\ consumer2' = IF OnStatusChange THEN [consumer2 EXCEPT !.pc = "callback"]
                                   ELSE [pc |-> "select", status |-> NoStatus]
  /\ UNCHANGED <<config, query, now, checkers, backoffVars, updateChannel, cancelled, started,
                 consumer, prod, schedVars, callVars, nAlloc, submitted, cbLog>>

ProcessCallback2 ==
  /\ consumer2.pc = "callback"
  /\ cbLog' = Append(cbLog, <<Name(consumer2.status.Checker), consumer2.status.ptr>>)
  /\ consumer2' = [pc |-> "select", status |-> NoStatus]
  /\ UNCHANGED <<config, mu, query, now, storeVars, backoffVars, updateChannel, cancelled, started,
                 consumer, prod, schedVars, callVars, nAlloc, submitted, applied>>

(***************************************************************************)
(* Start with auto-update enabled: processUpdates and autoUpdate are        *)
(* launched; autoUpdate's time.After(InitialDelay) runs from now.           *)
(***************************************************************************)
StartAuto ==
  /\ ~started
  /\ started' = TRUE
  /\ consumer' = [consumer EXCEPT !.pc = "select"]
  /\ sched' = [sched EXCEPT !.pc = "delay", !.timer = now + config.InitialDelay]
  /\ UNCHANGED <<config, mu, query, now, storeVars, backoffVars, updateChannel, cancelled,
                 consumer2, prod, ticker, checkCount, callVars, nAlloc, histVars>>

(***************************************************************************)
(* autoUpdate: the two selects, and the copy of the roster that begins a    *)
(* round.  `order` is the order in which `range ha.checkers` yields.        *)
(***************************************************************************)
\* lines 284-289 and 304-309: the roster copied into a slice
Snapshot(order) == [i \in DOMAIN order |-> checkers[order[i]]]

\* every round after the first goes over the checkers of the first roster only
BeginRoundFirstRoster(order) ==
  IF sched.round = 0
    THEN [sched EXCEPT !.pc = "cycle", !.queue = Snapshot(order), !.round = 1,
                       !.roster = {checkers[n] : n \in DOMAIN checkers}, !.cycled = {}]
    ELSE [sched EXCEPT !.pc = "cycle",
                       !.queue = SelectSeq(Snapshot(order), LAMBDA c : c \in sched.roster),
                       !.round = sched.round + 1, !.cycled = {}]

BeginRound(order) ==
  [sched EXCEPT !.pc = "cycle", !.queue = Snapshot(order), !.round = sched.round + 1,
                !.roster = {checkers[n] : n \in DOMAIN checkers}, !.cycled = {}]

\* the first round begun without waiting for the initial delay
AutoUpdateNoDelay(order) ==
  /\ sched.pc = "delay"
  /\ sched' = BeginRound(order)
  /\ UNCHANGED <<config, mu, query, now, storeVars, backoffVars, updateChannel, lifeVars, consumer,
                 prod, ticker, checkCount, callVars, nAlloc, histVars>>

AutoUpdateDelayElapsed(order) ==
  /\ MuFree
  /\ sched.pc = "delay"
  /\ now >= sched.timer
  /\ sched' = BeginRound(order)
  /\ UNCHANGED <<config, mu, query, now, storeVars, backoffVars, updateChannel, lifeVars, consumer,
                 prod, ticker, checkCount, callVars, nAlloc, histVars>>

AutoUpdateTick(order) ==
  /\ MuFree
  /\ sched.pc = "wait"
  /\ ticker.pending
  /\ ticker' = [ticker EXCEPT !.pending = FALSE]
  /\ sched' = BeginRound(order)
  /\ UNCHANGED <<config, mu, query, now, storeVars, backoffVars, updateChannel, lifeVars, consumer,
                 prod, checkCount, callVars, nAlloc, histVars>>

\* a cancellation that takes effect wherever autoUpdate is
AutoUpdateDoneAnywhere ==
  /\ sched.pc \notin {"idle", "done"}
  /\ cancelled
  /\ sched' = [sched EXCEPT !.pc = "done"]
  /\ ticker' = IF sched.pc = "wait" THEN [ticker EXCEPT !.on = FALSE] ELSE ticker
  /\ UNCHANGED <<config, mu, query, now, storeVars, backoffVars, updateChannel, lifeVars, consumer,
                 prod, checkCount, callVars, nAlloc, histVars>>

\* lines 279-281 and 301-303: ctx.Done() is looked at in the two selects only
AutoUpdateDone ==
  /\ sched.pc \in {"delay", "wait"}
  /\ cancelled
  /\ sched' = [sched EXCEPT !.pc = "done"]
  /\ ticker' = IF sched.pc = "wait" THEN [ticker EXCEPT !.on = FALSE] ELSE ticker
  /\ UNCHANGED <<config, mu, query, now, storeVars, backoffVars, updateChannel, lifeVars, consumer,
                 prod, checkCount, callVars, nAlloc, histVars>>

\* the round's loop is over: the first round is followed by time.NewTicker
AutoUpdateRoundEnd ==
  /\ sched.pc = "cycle"
  /\ sched.queue = <<>>
  /\ sched' = [sched EXCEPT !.pc = "wait"]
  /\ ticker' = IF sched.round = 1
                 THEN [on |-> TRUE, next |-> now + config.CheckInterval,
                       pending |-> FALSE]
                 ELSE ticker
  /\ UNCHANGED <<config, mu, query, now, storeVars, backoffVars, updateChannel, lifeVars, consumer,
                 prod, checkCount, callVars, nAlloc, histVars>>

(***************************************************************************)
(* checkHealth                                                              *)
(***************************************************************************)
\* a Go map read: the zero value when the key is absent
MapGet(m, k, zero) == IF k \in DOMAIN m THEN m[k] ELSE zero

\* no cycle is ever skipped
InBackoffNever(t, backoff, exists, lastAttempt) == FALSE

\* a cycle skipped also when the backoff has just elapsed
InBackoffInclusive(t, backoff, exists, lastAttempt) ==
  backoff > 0 /\ exists /\ t - lastAttempt <= backoff

\* lines 329-336: whether the cycle is skipped
InBackoff(t, backoff, exists, lastAttempt) ==
  backoff > 0 /\ exists /\ t - lastAttempt < backoff

\* the first backoff taken to be the whole check interval
NextBackoffFullInterval(backoff, livenessErr, readinessErr) ==
  IF livenessErr # Nil \/ readinessErr # Nil
    THEN LET factor == config.BackoffFactor
             b == IF backoff = 0 THEN config.CheckInterval
                                 ELSE (backoff * factor[1]) \div factor[2]
         IN IF b > config.MaxBackoff THEN config.MaxBackoff ELSE b
    ELSE 0

\* the backoff stored without the cap at MaxBackoff
NextBackoffUncapped(backoff, livenessErr, readinessErr) ==
  IF livenessErr # Nil \/ readinessErr # Nil
    THEN LET factor == config.BackoffFactor
         IN IF backoff = 0 THEN config.CheckInterval \div 2
                           ELSE (backoff * factor[1]) \div factor[2]
    ELSE 0

\* lines 349-366: the backoff stored after the probes
NextBackoff(backoff, livenessErr, readinessErr) ==
  IF livenessErr # Nil \/ readinessErr # Nil
    THEN LET factor == config.BackoffFactor
             b == IF backoff = 0 THEN config.CheckInterval \div 2
                                 ELSE (backoff * factor[1]) \div factor[2]
         IN IF b > config.MaxBackoff THEN config.MaxBackoff ELSE b
    ELSE 0

\* lines 320-336: the next checker of the round; its backoff state is read
CheckHealthBegin ==
  /\ MuFree
  /\ sched.pc = "cycle"
  /\ sched.queue # <<>>
  /\ LET checker == Head(sched.queue)
         name == Name(checker)
         backoff == MapGet(backoffTimes, name, 0)
         skip == InBackoff(now, backoff, name \in DOMAIN lastCheckAttempt,
                           MapGet(lastCheckAttempt, name, 0))
     IN sched' = [sched EXCEPT !.pc = IF skip THEN "cycle" ELSE "attempt",
                               !.queue = Tail(sched.queue),
                               !.checker = checker, !.t = now, !.backoff = backoff,
                               !.cycled = sched.cycled \cup {checker}]
  /\ UNCHANGED <<config, mu, query, now, storeVars, backoffVars, updateChannel, lifeVars, consumer,
                 prod, ticker, checkCount, callVars, nAlloc, histVars>>

\* the write of the attempt with ha.mu still held when the probes are called
CheckHealthAttemptLocked ==
  /\ MuFree
  /\ sched.pc = "attempt"
  /\ mu' = "checkHealth"
  /\ lastCheckAttempt' = MapSet(lastCheckAttempt, Name(sched.checker), sched.t)
  /\ sched' = [sched EXCEPT !.pc = "liveness"]
  /\ UNCHANGED <<config, query, now, storeVars, backoffTimes, updateChannel, lifeVars, consumer,
                 prod, ticker, checkCount, callVars, nAlloc, histVars>>

\* lines 339-341
CheckHealthAttempt ==
  /\ MuFree
  /\ sched.pc = "attempt"
  /\ lastCheckAttempt' = MapSet(lastCheckAttempt, Name(sched.checker), sched.t)
  /\ sched' = [sched EXCEPT !.pc = "liveness"]
  /\ UNCHANGED <<config, mu, query, now, storeVars, backoffTimes, updateChannel, lifeVars, consumer,
                 prod, ticker, checkCount, callVars, nAlloc, histVars>>

\* line 344: the checker's CheckLiveness returns err
CheckHealthLiveness(err) ==
  /\ sched.pc = "liveness"
  /\ checkCount' = [checkCount EXCEPT ![sched.checker] = @ + 1]
  /\ sched' = [sched EXCEPT !.pc = "readiness", !.livenessErr = err]
  /\ UNCHANGED <<config, mu, query, now, storeVars, backoffVars, updateChannel, lifeVars, consumer,
                 prod, ticker, callVars, nAlloc, histVars>>

\* line 345: the checker's CheckReadiness returns err
CheckHealthReadiness(err) ==
  /\ sched.pc = "readiness"
  /\ checkCount' = [checkCount EXCEPT ![sched.checker] = @ + 1]
  /\ sched' = [sched EXCEPT !.pc = "backoff", !.readinessErr = err]
  /\ UNCHANGED <<config, mu, query, now, storeVars, backoffVars, updateChannel, lifeVars, consumer,
                 prod, ticker, callVars, nAlloc, histVars>>

\* a failed probe that makes autoUpdate give up the rest of the round
CheckHealthBackoffAbort ==
  /\ MuFree
  /\ sched.pc = "backoff"
  /\ backoffTimes' = MapSet(backoffTimes, Name(sched.checker),
                            NextBackoff(sched.backoff, sched.livenessErr, sched.readinessErr))
  /\ sched' = [sched EXCEPT
       !.pc = "update",
       !.queue = IF sched.livenessErr # Nil \/ sched.readinessErr # Nil
                   THEN <<>> ELSE sched.queue,
       !.streak = MapSet(sched.streak, Name(sched.checker),
                         IF sched.livenessErr # Nil \/ sched.readinessErr # Nil
                           THEN MapGet(sched.streak, Name(sched.checker), 0) + 1
                           ELSE 0)]
  /\ UNCHANGED <<config, mu, query, now, storeVars, lastCheckAttempt, updateChannel, lifeVars, consumer,
                 prod, ticker, checkCount, callVars, nAlloc, histVars>>

\* lines 348-367
CheckHealthBackoff ==
  /\ MuFree
  /\ sched.pc = "backoff"
  /\ backoffTimes' = MapSet(backoffTimes, Name(sched.checker),
                            NextBackoff(sched.backoff, sched.livenessErr, sched.readinessErr))
  /\ sched' = [sched EXCEPT
       !.pc = "update",
       !.streak = MapSet(sched.streak, Name(sched.checker),
                         IF sched.livenessErr # Nil \/ sched.readinessErr # Nil
                           THEN MapGet(sched.streak, Name(sched.checker), 0) + 1
                           ELSE 0)]
  /\ UNCHANGED <<config, mu, query, now, storeVars, lastCheckAttempt, updateChannel, lifeVars, consumer,
                 prod, ticker, checkCount, callVars, nAlloc, histVars>>

\* a cycle that reports failures only: nothing is sent after two nil results
CheckHealthUpdateOnFailure ==
  /\ MuFree
  /\ sched.pc = "update"
  /\ LET call == UpdateHealthLookup(sched.checker, sched.livenessErr, sched.readinessErr)
         quiet == sched.livenessErr = Nil /\ sched.readinessErr = Nil
     IN sched' = [sched EXCEPT !.pc = IF call.pc = "idle" \/ quiet THEN "cycle" ELSE "build",
                               !.call = IF quiet THEN NoCall ELSE call]
  /\ submitted' = IF Name(sched.checker) \in DOMAIN statuses
                    THEN submitted \cup {Name(sched.checker)} ELSE submitted
  /\ UNCHANGED <<config, mu, query, now, storeVars, backoffVars, updateChannel, lifeVars, consumer,
                 prod, ticker, checkCount, callVars, nAlloc, applied, cbLog>>

\* line 370: UpdateHealth, as called by checkHealth
CheckHealthUpdateRead ==
  /\ MuFree
  /\ sched.pc = "update"
  /\ LET call == UpdateHealthLookup(sched.checker, sched.livenessErr, sched.readinessErr)
     IN sched' = [sched EXCEPT !.pc = IF call.pc = "idle" THEN "cycle" ELSE "build",
                               !.call = call]
  /\ submitted' = IF Name(sched.checker) \in DOMAIN statuses
                    THEN submitted \cup {Name(sched.checker)} ELSE submitted
  /\ UNCHANGED <<config, mu, query, now, storeVars, backoffVars, updateChannel, lifeVars, consumer,
                 prod, ticker, checkCount, callVars, nAlloc, applied, cbLog>>

CheckHealthUpdateBuild ==
  /\ sched.pc = "build"
  /\ sched' = [sched EXCEPT !.pc = "send", !.call = UpdateHealthValue(sched.call)]
  /\ nAlloc' = nAlloc + 1
  /\ UNCHANGED <<config, mu, query, now, storeVars, backoffVars, updateChannel, lifeVars, consumer,
                 prod, ticker, checkCount, callVars, histVars>>

CheckHealthUpdateSend ==
  /\ sched.pc = "send"
  /\ Len(updateChannel) < config.UpdateBuffer
  /\ updateChannel' = Append(updateChannel, sched.call.status)
  /\ sched' = [sched EXCEPT !.pc = "cycle", !.call = NoCall, !.checker = "none",
                            !.t = 0, !.backoff = 0, !.livenessErr = Nil,
                            !.readinessErr = Nil]
  /\ UNCHANGED <<config, mu, query, now, storeVars, backoffVars, lifeVars, consumer, prod, ticker,
                 checkCount, callVars, nAlloc, histVars>>

(***************************************************************************)
(* A caller of the queries.  GetLiveness and GetReadiness hold the read     *)
(* lock from entry to return; GetOverallHealth calls one after the other.   *)
(***************************************************************************)
\* a GetLiveness that drops the entries it finds expired
GetLivenessPruning(order) ==
  /\ query.pc = "idle"
  /\ MuFree
  /\ query' = [pc |-> "idle", op |-> "GetLiveness",
               liveness |-> GetLiveness(statuses, now, order), readiness |-> NoResult,
               at |-> NoSnapshot]
  /\ statuses' = [n \in {m \in DOMAIN statuses : ~Expired(statuses[m], now)} |->
                    statuses[n]]
  /\ UNCHANGED <<config, mu, now, checkers, backoffVars, updateChannel, lifeVars,
                 consumer, prod, schedVars, callVars, nAlloc, histVars>>

GetLivenessCall(order) ==
  /\ query.pc = "idle"
  /\ MuFree
  /\ query' = [pc |-> "idle", op |-> "GetLiveness",
               liveness |-> GetLiveness(statuses, now, order), readiness |-> NoResult,
               at |-> NoSnapshot]
  /\ UNCHANGED <<config, mu, now, storeVars, backoffVars, updateChannel, lifeVars,
                 consumer, prod, schedVars, callVars, nAlloc, histVars>>

GetReadinessCall(order) ==
  /\ query.pc = "idle"
  /\ MuFree
  /\ query' = [pc |-> "idle", op |-> "GetReadiness", liveness |-> NoResult,
               readiness |-> GetReadiness(statuses, now, order), at |-> NoSnapshot]
  /\ UNCHANGED <<config, mu, now, storeVars, backoffVars, updateChannel, lifeVars,
                 consumer, prod, schedVars, callVars, nAlloc, histVars>>

\* line 251: the first half of GetOverallHealth
GetOverallHealthLiveness(order) ==
  /\ query.pc = "idle"
  /\ MuFree
  /\ query' = [pc |-> "readiness", op |-> "GetOverallHealth",
               liveness |-> GetLiveness(statuses, now, order), readiness |-> NoResult,
               at |-> [statuses |-> statuses, now |-> now,
                       writes |-> nRegister + Len(applied)]]
  /\ UNCHANGED <<config, mu, now, storeVars, backoffVars, updateChannel, lifeVars,
                 consumer, prod, schedVars, callVars, nAlloc, histVars>>

\* lines 252-253: the second half, and the return
GetOverallHealthReadiness(order) ==
  /\ query.pc = "readiness"
  /\ MuFree
  /\ query' = [query EXCEPT !.pc = "idle",
                            !.readiness = GetReadiness(statuses, now, order),
                            !.at = NoSnapshot]
  /\ UNCHANGED <<config, mu, now, storeVars, backoffVars, updateChannel, lifeVars,
                 consumer, prod, schedVars, callVars, nAlloc, histVars>>

(***************************************************************************)
(* PulseResponse (health.go) and the handlers of the example server, which  *)
(* answer a query with the JSON encoding of NewUpStatus or NewDownStatus.   *)
(***************************************************************************)
StatusUp == "UP"
StatusDown == "DOWN"

\* a DOWN response that carries no details
NewDownStatusBare(errors) == [Status |-> StatusDown, Details |-> <<>>]

NewDownStatus(errors) ==
  [Status |-> StatusDown, Details |-> [k \in DOMAIN errors |-> StatusDown]]

\* Details is left nil
NewUpStatus == [Status |-> StatusUp, Details |-> <<>>]

\* json.Marshal: `details` is tagged omitempty
Marshal(response) ==
  IF DOMAIN response.Details = {}
    THEN [status |-> response.Status]
    ELSE [status |-> response.Status, details |-> response.Details]

\* the /liveness and /readiness handlers, given what the query returned
Handle(result) ==
  IF result[1] THEN Marshal(NewUpStatus) ELSE Marshal(NewDownStatus(result[2]))

(***************************************************************************)
(* The aggregator with auto-update disabled (the default configuration).    *)
(***************************************************************************)
\* the calls made and clock ticks taken so far
Ops == nRegister + nSubmit + now

Next ==
  \/ Ops < MaxOps /\ Tick
  \/ Ops < MaxOps /\ \E c \in Checkers, p \in Priorities : RegisterHealthCheck(c, p)
  \/ Start
  \/ Stop
  \/ Ops < MaxOps /\ \E p \in Producers, c \in Checkers, le \in {Nil, "e1"}, re \in {Nil, "e2"} :
        UpdateHealthRead(p, c, le, re)
  \/ \E p \in Producers : UpdateHealthBuild(p)
  \/ \E p \in Producers : UpdateHealthSend(p)
  \/ ProcessDone
  \/ ProcessReceive
  \/ ProcessApply
  \/ ProcessCallback

Spec == Init /\ [][Next]_vars

(***************************************************************************)
(* The aggregator with auto-update disabled, its consumer goroutine         *)
(* scheduled fairly.                                                        *)
(***************************************************************************)
NextFair ==
  \/ Ops < MaxFairOps /\ Tick
  \/ Ops < MaxFairOps /\ \E c \in Checkers, p \in Priorities : RegisterHealthCheck(c, p)
  \/ Start
  \/ Stop
  \/ Ops < MaxFairOps /\ \E p \in Producers, c \in Checkers, le \in {Nil, "e1"}, re \in {Nil, "e2"} :
        UpdateHealthRead(p, c, le, re)
  \/ \E p \in Producers : UpdateHealthBuild(p)
  \/ \E p \in Producers : UpdateHealthSend(p)
  \/ ProcessDone
  \/ ProcessReceive
  \/ ProcessApply
  \/ ProcessCallback

FairSpec ==
  /\ Init /\ [][NextFair]_vars
  /\ WF_vars(ProcessReceive)
  /\ WF_vars(ProcessApply)
  /\ WF_vars(ProcessCallback)

(***************************************************************************)
(* The aggregator with auto-update enabled (WithAutoUpdate).                *)
(***************************************************************************)
NextAuto ==
  \/ Ops < MaxAutoOps /\ Tick
  \/ Ops < MaxAutoOps /\ \E c \in Checkers, p \in Priorities : RegisterHealthCheck(c, p)
  \/ StartAuto
  \/ Stop
  \/ ProcessDone
  \/ ProcessReceive
  \/ ProcessApply
  \/ ProcessCallback
  \/ \E order \in Orders(DOMAIN checkers) : AutoUpdateDelayElapsed(order)
  \/ \E order \in Orders(DOMAIN checkers) : AutoUpdateTick(order)
  \/ AutoUpdateDone
  \/ AutoUpdateRoundEnd
  \/ CheckHealthBegin
  \/ CheckHealthAttempt
  \/ \E err \in {Nil, "e1"} : CheckHealthLiveness(err)
  \/ \E err \in {Nil, "e2"} : CheckHealthReadiness(err)
  \/ CheckHealthBackoff
  \/ CheckHealthUpdateRead
  \/ CheckHealthUpdateBuild
  \/ CheckHealthUpdateSend

SpecAuto == Init /\ [][NextAuto]_vars

(***************************************************************************)
(* The aggregator with auto-update disabled and WithUpdateBuffer(2): the    *)
(* update pipeline with room for two updates in the channel.                *)
(***************************************************************************)
PipeConfig == [DefaultConfig EXCEPT !.UpdateBuffer = 2]

InitPipe == NewHealthAggregator(PipeConfig)

NextPipe ==
  \/ Ops < MaxPipeOps /\ Tick
  \/ Ops < MaxPipeOps /\ \E c \in Checkers, p \in {PriorityCritical, PriorityLow} :
        RegisterHealthCheck(c, p)
  \/ Start
  \/ Stop
  \/ Ops < MaxPipeOps /\ \E p \in Producers, c \in Checkers, le \in {Nil, "e1"}, re \in {Nil, "e2"} :
        UpdateHealthRead(p, c, le, re)
  \/ \E p \in Producers : UpdateHealthBuild(p)
  \/ \E p \in Producers : UpdateHealthSend(p)
  \/ ProcessDone
  \/ ProcessReceive
  \/ ProcessApply
  \/ ProcessCallback

SpecPipe == InitPipe /\ [][NextPipe]_vars

(***************************************************************************)
(* The aggregator with auto-update disabled on which Start is called twice. *)
(***************************************************************************)
NextRestart ==
  \/ Ops < MaxRestartOps /\ Tick
  \/ Ops < MaxRestartOps /\ \E c \in Checkers, p \in {PriorityCritical, PriorityLow} :
        RegisterHealthCheck(c, p)
  \/ Start
  \/ StartAgain
  \/ Stop
  \/ Ops < MaxRestartOps /\ \E p \in Producers, c \in Checkers, le \in {Nil, "e1"}, re \in {Nil, "e2"} :
        UpdateHealthRead(p, c, le, re)
  \/ \E p \in Producers : UpdateHealthBuild(p)
  \/ \E p \in Producers : UpdateHealthSend(p)
  \/ ProcessDone
  \/ ProcessReceive
  \/ ProcessApply
  \/ ProcessCallback
  \/ ProcessDone2
  \/ ProcessReceive2
  \/ ProcessApply2
  \/ ProcessCallback2

SpecRestart == Init /\ [][NextRestart]_vars

(***************************************************************************)
(* The aggregator with auto-update disabled and a task that calls the       *)
(* queries while registrations, submissions and the consumer go on.         *)
(***************************************************************************)
NextQuery ==
  \/ Ops < MaxQueryOps /\ Tick
  \/ Ops < MaxQueryOps /\ \E c \in Checkers, p \in {PriorityCritical, PriorityLow} :
        RegisterHealthCheck(c, p)
  \/ Start
  \/ Stop
  \/ Ops < MaxQueryOps /\ \E p \in Producers, c \in Checkers, le \in {Nil, "e1"}, re \in {Nil, "e2"} :
        UpdateHealthRead(p, c, le, re)
  \/ \E p \in Producers : UpdateHealthBuild(p)
  \/ \E p \in Producers : UpdateHealthSend(p)
  \/ ProcessDone
  \/ ProcessReceive
  \/ ProcessApply
  \/ ProcessCallback
  \/ \E order \in Orders(DOMAIN statuses) : GetLivenessCall(order)
  \/ \E order \in Orders(DOMAIN statuses) : GetReadinessCall(order)
  \/ \E order \in Orders(DOMAIN statuses) : GetOverallHealthLiveness(order)
  \/ \E order \in Orders(DOMAIN statuses) : GetOverallHealthReadiness(order)

SpecQuery == Init /\ [][NextQuery]_vars

(***************************************************************************)
(* The aggregator with auto-update enabled and no initial delay, used by    *)
(* tasks that register, call UpdateHealth themselves and query while the    *)
(* Scheduler runs.                                                          *)
(***************************************************************************)
MixedConfig == [DefaultConfig EXCEPT !.InitialDelay = 0]

InitMixed == NewHealthAggregator(MixedConfig)

NextMixed ==
  \/ Ops < MaxMixedOps /\ Tick
  \/ Ops < MaxMixedOps /\ \E p \in {PriorityCritical, PriorityLow} :
        RegisterHealthCheck("c1", p)
  \/ StartAuto
  \/ Stop
  \/ Ops < MaxMixedOps /\ \E p \in Producers, le \in {Nil, "e1"} :
        UpdateHealthRead(p, "c1", le, Nil)
  \/ \E p \in Producers : UpdateHealthBuild(p)
  \/ \E p \in Producers : UpdateHealthSend(p)
  \/ ProcessDone
  \/ ProcessReceive
  \/ ProcessApply
  \/ ProcessCallback
  \/ \E order \in Orders(DOMAIN statuses) : GetLivenessCall(order)
  \/ \E order \in Orders(DOMAIN checkers) : AutoUpdateDelayElapsed(order)
  \/ \E order \in Orders(DOMAIN checkers) : AutoUpdateTick(order)
  \/ AutoUpdateDone
  \/ AutoUpdateRoundEnd
  \/ CheckHealthBegin
  \/ CheckHealthAttempt
  \/ \E err \in {Nil, "e1"} : CheckHealthLiveness(err)
  \/ CheckHealthReadiness(Nil)
  \/ CheckHealthBackoff
  \/ CheckHealthUpdateRead
  \/ CheckHealthUpdateBuild
  \/ CheckHealthUpdateSend

SpecMixed == InitMixed /\ [][NextMixed]_vars

(***************************************************************************)
(* The aggregator with auto-update enabled, no initial delay and a check    *)
(* interval of one clock unit, never stopped, with goroutines that are      *)
(* scheduled fairly: autoUpdate and processUpdates take their next step     *)
(* when they can, the probes return (nil), and the clock reaches the        *)
(* ticker's next tick.  Time is observed through the ticker: the clock      *)
(* advances to the next tick when none is pending.  Registrations stop      *)
(* before the last round that is looked at.                                 *)
(***************************************************************************)
LiveConfig == [DefaultConfig EXCEPT !.InitialDelay = 0, !.CheckInterval = 1]

InitLive == NewHealthAggregator(LiveConfig)

ClockStep == ticker.on /\ ~ticker.pending /\ sched.round < MaxLiveRounds /\ Tick

ConsumerStep == ProcessReceive \/ ProcessApply \/ ProcessCallback

SchedulerStep ==
  \/ \E order \in Orders(DOMAIN checkers) : AutoUpdateDelayElapsed(order)
  \/ \E order \in Orders(DOMAIN checkers) : AutoUpdateTick(order)
  \/ AutoUpdateRoundEnd
  \/ CheckHealthBegin
  \/ CheckHealthAttempt
  \/ CheckHealthLiveness(Nil)
  \/ CheckHealthReadiness(Nil)
  \/ CheckHealthBackoff
  \/ CheckHealthUpdateRead
  \/ CheckHealthUpdateBuild
  \/ CheckHealthUpdateSend

NextLive ==
  \/ ClockStep
  \/ nRegister < MaxLiveRegs /\ sched.round < MaxLiveRounds
       /\ \E c \in Checkers : RegisterHealthCheck(c, PriorityCritical)
  \/ StartAuto
  \/ ConsumerStep
  \/ SchedulerStep

SpecLive ==
  /\ InitLive /\ [][NextLive]_vars
  /\ WF_vars(ClockStep)
  /\ WF_vars(ConsumerStep)
  /\ WF_vars(SchedulerStep)

(***************************************************************************)
(* The aggregator with auto-update enabled and no initial delay, one        *)
(* checker, under the backoff configurations WithAutoUpdate and WithBackoff *)
(* can produce; the checker's probes may fail in every cycle.               *)
(***************************************************************************)
RetryConfigs ==
  {[DefaultConfig EXCEPT !.InitialDelay = 0, !.CheckInterval = i,
                         !.MaxBackoff = m, !.BackoffFactor = f] :
     i \in {2, 4}, m \in {1, 3}, f \in {<<1, 2>>, <<1, 1>>, <<2, 1>>}}

InitRetry == \E cfg \in RetryConfigs : NewHealthAggregator(cfg)

NextRetry ==
  \/ now < MaxRetryTicks /\ Tick
  \/ nRegister = 0 /\ RegisterHealthCheck("c1", PriorityCritical)
  \/ StartAuto
  \/ ProcessReceive
  \/ ProcessApply
  \/ ProcessCallback
  \/ \E order \in Orders(DOMAIN checkers) : AutoUpdateDelayElapsed(order)
  \/ \E order \in Orders(DOMAIN checkers) : AutoUpdateTick(order)
  \/ AutoUpdateRoundEnd
  \/ CheckHealthBegin
  \/ CheckHealthAttempt
  \/ \E err \in {Nil, "e1"} : CheckHealthLiveness(err)
  \/ \E err \in {Nil, "e2"} : CheckHealthReadiness(err)
  \/ CheckHealthBackoff
  \/ CheckHealthUpdateRead
  \/ CheckHealthUpdateBuild
  \/ CheckHealthUpdateSend

SpecRetry == InitRetry /\ [][NextRetry]_vars

(***************************************************************************)
(* Properties                                                               *)
(***************************************************************************)
\* what a query returns in the current state, for an iteration order
Liveness(order) == GetLiveness(statuses, now, order)
Readiness(order) == GetReadiness(statuses, now, order)
RangeOrders == Orders(DOMAIN statuses)
Registered == DOMAIN statuses

\* the record of n is older than the expiry time
Stale(n) == now - statuses[n].LastUpdate > ExpiryTime

LivenessFails(n) == Stale(n) \/ ~statuses[n].Liveness
ReadinessFails(n) == Stale(n) \/ ~statuses[n].Readiness
Fails(n) == LivenessFails(n) \/ ReadinessFails(n)

\* C1: when GetLiveness (GetReadiness) returns false, the name in its error
\* map fails on that axis or is expired, and no failing or expired checker
\* has a more important priority.
C1_HighestFailingTier ==
  \A order \in RangeOrders :
    /\ ~Liveness(order)[1] =>
         \A n \in DOMAIN Liveness(order)[2] :
           /\ n \in Registered /\ LivenessFails(n)
           /\ \A m \in Registered :
                LivenessFails(m) => statuses[n].Priority <= statuses[m].Priority
    /\ ~Readiness(order)[1] =>
         \A n \in DOMAIN Readiness(order)[2] :
           /\ n \in Registered /\ ReadinessFails(n)
           /\ \A m \in Registered :
                ReadinessFails(m) => statuses[n].Priority <= statuses[m].Priority

\* a Critical and a Low checker fail together, and the Critical one is reported
C1_Witness ==
  \E n, m \in Registered, order \in RangeOrders :
    /\ statuses[n].Priority = PriorityCritical /\ statuses[m].Priority = PriorityLow
    /\ statuses[n].ptr > 0 /\ ~statuses[n].Liveness
    /\ LivenessFails(m)
    /\ order[1] = m
    /\ Liveness(order) = <<FALSE, n :> statuses[n].LivenessErr>>

\* C2: a query returns (true, no errors) or (false, exactly one error).
C2_OneErrorOrNone ==
  \A order \in RangeOrders :
    \A r \in {Liveness(order), Readiness(order)} :
      \/ r[1] /\ DOMAIN r[2] = {}
      \/ ~r[1] /\ Cardinality(DOMAIN r[2]) = 1

\* two checkers of different tiers fail at once; one is reported
C2_Witness ==
  \E n, m \in Registered, order \in RangeOrders :
    /\ statuses[n].Priority # statuses[m].Priority
    /\ LivenessFails(n) /\ LivenessFails(m)
    /\ ~Liveness(order)[1] /\ Cardinality(DOMAIN Liveness(order)[2]) = 1

\* C3: while a registered name has had no result submitted, both queries
\* return false.
C3_UnknownIsFailing ==
  \A n \in Registered :
    n \notin submitted =>
      \A order \in RangeOrders : ~Liveness(order)[1] /\ ~Readiness(order)[1]

\* a name is registered and not yet updated while the other checker, of a
\* more important tier, is healthy
C3_Witness ==
  \E n, m \in Registered :
    /\ n \notin submitted
    /\ statuses[m].ptr > 0 /\ ~Fails(m)
    /\ statuses[m].Priority < statuses[n].Priority
    /\ \A order \in RangeOrders : Liveness(order) = <<FALSE, n :> Nil>>

InChannel(k) == \E i \in DOMAIN updateChannel : updateChannel[i].ptr = k
Applied(k) == \E i \in DOMAIN applied : applied[i][2] = k

\* the store entry of n is an update submitted with two nil errors
HealthyUpdate(n) ==
  statuses[n].ptr > 0 /\ statuses[n].LivenessErr = Nil /\ statuses[n].ReadinessErr = Nil

AllHealthy ==
  \A order \in RangeOrders :
    Liveness(order) = <<TRUE, NoErrors>> /\ Readiness(order) = <<TRUE, NoErrors>>

\* C4 as claimed: on a started, not stopped aggregator, once a healthy update
\* of X is in the store, X is not expired and no other checker of an equal or
\* more important priority fails, both queries return true.
C4_AsClaimed ==
  started /\ ~cancelled =>
    \A n \in Registered :
      ( /\ HealthyUpdate(n) /\ ~Stale(n)
        /\ \A m \in Registered \ {n} :
             statuses[m].Priority <= statuses[n].Priority => ~Fails(m) )
      => AllHealthy

C4_HealthyWhenNoneFails ==
  started /\ ~cancelled =>
    \A n \in Registered :
      ( /\ HealthyUpdate(n) /\ ~Stale(n)
        /\ \A m \in Registered \ {n} : ~Fails(m) )
      => AllHealthy

C4_EventuallyApplied ==
  \A k \in 1..MaxFairOps : (started /\ InChannel(k)) ~> (Applied(k) \/ cancelled)

\* C4, amended: on a started aggregator an update that UpdateHealth has sent is
\* eventually applied unless the aggregator is stopped; and once a healthy
\* update of X is in the store, X is not expired and no other checker of any
\* priority fails or is expired, both queries return true.
C4_Amended == []C4_HealthyWhenNoneFails /\ C4_EventuallyApplied

\* a healthy update has been sent and applied, and the queries say so
C4_Witness ==
  /\ started /\ ~cancelled
  /\ \E n \in Registered :
       /\ HealthyUpdate(n) /\ ~Stale(n) /\ Applied(statuses[n].ptr)
       /\ \A m \in Registered \ {n} : ~Fails(m)
  /\ AllHealthy

\* C5: with X the only registered checker and not expired, an applied update
\* with a liveness error only makes GetLiveness return (false, {X: that error})
\* and GetReadiness true; with a readiness error only, the other way round.
C5_AxisAttribution ==
  \A n \in Registered :
    (Registered = {n} /\ statuses[n].ptr > 0 /\ ~Stale(n)) =>
      \A order \in RangeOrders :
        /\ (statuses[n].LivenessErr # Nil /\ statuses[n].ReadinessErr = Nil) =>
             /\ Liveness(order) = <<FALSE, n :> statuses[n].LivenessErr>>
             /\ Readiness(order) = <<TRUE, NoErrors>>
        /\ (statuses[n].LivenessErr = Nil /\ statuses[n].ReadinessErr # Nil) =>
             /\ Readiness(order) = <<FALSE, n :> statuses[n].ReadinessErr>>
             /\ Liveness(order) = <<TRUE, NoErrors>>

\* the update UpdateHealth(X, e1, nil) has been applied, X alone and fresh
C5_Witness ==
  \E n \in Registered :
    /\ Registered = {n} /\ Applied(statuses[n].ptr) /\ ~Stale(n)
    /\ statuses[n].LivenessErr = "e1" /\ statuses[n].ReadinessErr = Nil
    /\ \A order \in RangeOrders : Liveness(order) = <<FALSE, n :> "e1">>

\* what a query returns is false with the expiry error for some name
ExpiryReported(r) ==
  ~r[1] /\ \A n \in DOMAIN r[2] : r[2][n] = ErrHealthCheckExpired

\* C6 as claimed: if X is expired and no checker of a more important tier
\* fails or is expired, both queries return false with the expiry error.
C6_AsClaimed ==
  \A n \in Registered :
    ( /\ Stale(n)
      /\ \A m \in Registered : statuses[m].Priority < statuses[n].Priority => ~Fails(m) )
    => \A order \in RangeOrders :
         ExpiryReported(Liveness(order)) /\ ExpiryReported(Readiness(order))

\* C6, amended: if X is expired and no other checker of X's tier or of a more
\* important tier fails or is expired, both queries return
\* (false, {X: expired}), whatever X's recorded axes.
C6_Amended ==
  \A n \in Registered :
    ( /\ Stale(n)
      /\ \A m \in Registered \ {n} :
           statuses[m].Priority <= statuses[n].Priority => ~Fails(m) )
    => \A order \in RangeOrders :
         /\ Liveness(order) = <<FALSE, n :> ErrHealthCheckExpired>>
         /\ Readiness(order) = <<FALSE, n :> ErrHealthCheckExpired>>

\* an applied healthy update of X has expired and the queries report it
C6_Witness ==
  \E n \in Registered :
    /\ Stale(n) /\ HealthyUpdate(n) /\ statuses[n].Liveness /\ statuses[n].Readiness
    /\ \A order \in RangeOrders : Liveness(order) = <<FALSE, n :> ErrHealthCheckExpired>>

\* the names that updates in flight, applied or notified refer to
InFlightNames ==
  {Name(updateChannel[i].Checker) : i \in DOMAIN updateChannel}
    \cup {applied[i][1] : i \in DOMAIN applied}
    \cup {cbLog[i][1] : i \in DOMAIN cbLog}
    \cup (IF consumer.status = NoStatus THEN {} ELSE {Name(consumer.status.Checker)})

\* a call of UpdateHealth for a checker that is not registered returns in the
\* same step and changes nothing
UnknownSubmitIsNoOp ==
  \A p \in Producers, c \in Checkers, le \in {Nil, "e1"}, re \in {Nil, "e2"} :
    (UpdateHealthRead(p, c, le, re) /\ Name(c) \notin DOMAIN statuses) =>
      /\ prod'[p] = NoCall
      /\ UNCHANGED <<config, mu, query, statuses, checkers, updateChannel, backoffTimes,
                     lastCheckAttempt, consumer, applied, cbLog>>

\* C7: UpdateHealth for a checker that was never registered returns without
\* blocking, whether the channel is full or not and the aggregator started or
\* not, leaves the store, the channel, the backoff state and the roster as
\* they were, and no update or callback ever refers to such a checker.
C7_UnknownSubmitNoEffect ==
  /\ [][UnknownSubmitIsNoOp]_vars
  /\ [](InFlightNames \subseteq DOMAIN statuses)

\* with the channel full, calls for an unknown checker have returned
C7_Witness ==
  /\ Len(updateChannel) = config.UpdateBuffer
  /\ \A p \in Producers : prod[p].pc = "idle"
  /\ nSubmit > nAlloc
  /\ \E c \in Checkers : Name(c) \notin DOMAIN statuses

\* C8 as claimed: once Stop has been called no update is applied to the store.
C8_NoApplyAfterStop == [][cancelled => applied' = applied]_vars

\* C9 as claimed: once Stop has been called the scheduler calls neither
\* CheckLiveness nor CheckReadiness of any checker.
C9_NoProbeAfterStop == [][cancelled => checkCount' = checkCount]_vars

\* C10: no probe is called before InitialDelay has elapsed since Start; the
\* round that follows runs before the ticker exists, and when it is over every
\* checker of the roster copied at its beginning has had its check cycle, both
\* probes called once, and no other checker has been probed.
C10_InitialDelayThenOneRound ==
  /\ (~started \/ now < sched.timer \/ sched.pc = "delay") =>
       \A c \in Checkers : checkCount[c] = 0
  /\ (sched.round = 1 /\ sched.pc \notin {"wait", "done"}) => ~ticker.on
  /\ sched.round > 1 => ticker.on \/ sched.pc = "done"
  /\ (sched.round = 1 /\ sched.pc = "wait") =>
       /\ sched.cycled = sched.roster
       /\ \A c \in Checkers : checkCount[c] = IF c \in sched.roster THEN 2 ELSE 0

\* the first round over a roster of two checkers is over, the aggregator running
C10_Witness ==
  /\ ~cancelled
  /\ sched.round = 1 /\ sched.pc = "wait"
  /\ Cardinality(sched.roster) = 2
  /\ \A c \in sched.roster : checkCount[c] = 2

RECURSIVE Pow(_, _)
Pow(b, e) == IF e = 0 THEN 1 ELSE b * Pow(b, e - 1)

Min(a, b) == IF a < b THEN a ELSE b

\* the backoff the claim prescribes after one more executed cycle
BackoffRule(current, failed) ==
  IF failed
    THEN Min(config.MaxBackoff,
             IF current = 0
               THEN config.CheckInterval \div 2
               ELSE (current * config.BackoffFactor[1]) \div config.BackoffFactor[2])
    ELSE 0

\* the step of checkHealth that stores the backoff follows the rule
BackoffStepRule ==
  (sched.pc = "backoff" /\ sched'.pc = "update") =>
    LET name == Name(sched.checker)
        current == IF name \in DOMAIN backoffTimes THEN backoffTimes[name] ELSE 0
    IN backoffTimes'[name] =
         BackoffRule(current, sched.livenessErr # Nil \/ sched.readinessErr # Nil)

\* min(maxBackoff, (I/2) * backoffFactor^(n-1)), in whole clock units
BackoffClosedForm(n) ==
  Min(config.MaxBackoff,
      ((config.CheckInterval \div 2) * Pow(config.BackoffFactor[1], n - 1))
        \div Pow(config.BackoffFactor[2], n - 1))

\* C11 as claimed: under every configuration, after n consecutive failed
\* cycles the backoff is min(maxBackoff, (I/2) * backoffFactor^(n-1)), and it
\* is 0 after a successful cycle.
C11_AsClaimed ==
  \A name \in DOMAIN sched.streak :
    backoffTimes[name] = IF sched.streak[name] = 0 THEN 0
                         ELSE BackoffClosedForm(sched.streak[name])

C11_ClosedFormFactorAtLeastOne ==
  config.BackoffFactor[1] >= config.BackoffFactor[2] => C11_AsClaimed

\* C11, amended: an executed cycle in which a probe fails sets the backoff to
\* I/2 if it was 0 and otherwise to backoff * backoffFactor truncated to a
\* whole duration, clamped to maxBackoff in both cases; a successful cycle
\* sets it to 0; and when backoffFactor is at least 1 the backoff after n
\* consecutive failed cycles is min(maxBackoff, (I/2) * backoffFactor^(n-1)).
C11_Amended == [][BackoffStepRule]_vars /\ []C11_ClosedFormFactorAtLeastOne

\* three failed cycles in a row, the last two multiplied and clamped
C11_Witness ==
  /\ config.BackoffFactor = <<2, 1>> /\ config.CheckInterval = 2
  /\ config.MaxBackoff = 3
  /\ \E name \in DOMAIN sched.streak :
       sched.streak[name] = 3 /\ backoffTimes[name] = 3

\* the updates applied so far to the entry of n, oldest first
AppliedTo(n) == {applied[i][2] : i \in {j \in DOMAIN applied : applied[j][1] = n}}

\* the updates of n that UpdateHealth has allocated and that are not applied
InFlight(n) ==
  {prod[p].status.ptr : p \in {q \in Producers :
                                 prod[q].pc = "send" /\ Name(prod[q].checker) = n}}
    \cup {updateChannel[i].ptr :
            i \in {j \in DOMAIN updateChannel : Name(updateChannel[j].Checker) = n}}
    \cup (IF consumer.pc = "apply" /\ Name(consumer.status.Checker) = n
            THEN {consumer.status.ptr} ELSE {})

\* C12: with one submitting task, whose updates are numbered in the order of
\* its calls, updates are applied in that order, and unless the name has
\* been registered again since, its store entry is the last update applied
\* for it, which is the last one submitted once none is in flight.
C12_AppliedInSubmissionOrder ==
  /\ \A i, j \in DOMAIN applied : i < j => applied[i][2] < applied[j][2]
  /\ \A n \in Registered :
       statuses[n].ptr > 0 =>
         /\ statuses[n].ptr \in AppliedTo(n)
         /\ \A k \in AppliedTo(n) \cup InFlight(n) :
              k > statuses[n].ptr => k \in InFlight(n)

\* two updates of one checker have been applied in order, a third waits in
\* the channel, and the store holds the second
C12_Witness ==
  /\ Len(applied) = 2
  /\ applied[1][1] = applied[2][1]
  /\ statuses[applied[2][1]].ptr = applied[2][2]
  /\ statuses[applied[2][1]].LivenessErr = "e1"
  /\ Len(updateChannel) = 1

\* C13: the callback is invoked once for each applied update, with the
\* update's name and status, in the order of application: the invocations
\* are a prefix of the applied updates, and the only update applied and not
\* yet notified is the one whose callback the consumer is about to make.
C13_CallbackOncePerApplied ==
  /\ Len(cbLog) <= Len(applied)
  /\ cbLog = SubSeq(applied, 1, Len(cbLog))
  /\ Len(applied) - Len(cbLog) = IF consumer.pc = "callback" THEN 1 ELSE 0
  /\ consumer.pc = "callback" =>
       applied[Len(applied)] = <<Name(consumer.status.Checker), consumer.status.ptr>>

\* two updates have been applied and notified, a third is in the channel
C13_Witness ==
  /\ Len(cbLog) = 2 /\ cbLog = applied
  /\ cbLog[1] # cbLog[2]
  /\ updateChannel # <<>>

\* C14: the store holds one entry per registered name, filed under the name
\* of its own checker, and nothing else: its keys are the keys of the roster,
\* a registration adds its name and nothing else, and no other step (submit,
\* apply, scheduler cycle, stop) adds or removes a key.
C14_StoreKeysAreRegistered ==
  /\ [](/\ DOMAIN statuses = DOMAIN checkers
        /\ nRegister = 0 => DOMAIN statuses = {}
        /\ \A n \in DOMAIN statuses : Name(statuses[n].Checker) = n)
  /\ [][\A c \in Checkers, p \in Priorities :
          RegisterHealthCheck(c, p) =>
            DOMAIN statuses' = DOMAIN statuses \cup {Name(c)}]_vars
  /\ [][nRegister' = nRegister => DOMAIN statuses' = DOMAIN statuses]_vars

\* two names are registered and updates of both have been applied after Stop
C14_Witness ==
  /\ DOMAIN statuses = Names
  /\ \A n \in Names : statuses[n].ptr > 0
  /\ cancelled

\* C15: every call of RegisterHealthCheck(checker, p) can be made and leaves
\* the entry of the checker's name with priority p, both axes false, no
\* errors and LastUpdate = now, whether or not the name had an entry.
C15_RegisterResets ==
  /\ [](\A c \in Checkers, p \in Priorities : ENABLED RegisterHealthCheck(c, p))
  /\ [][\A c \in Checkers, p \in Priorities :
          RegisterHealthCheck(c, p) =>
            LET entry == statuses'[Name(c)]
            IN /\ entry.Checker = c /\ entry.Priority = p
               /\ ~entry.Liveness /\ ~entry.Readiness
               /\ entry.LivenessErr = Nil /\ entry.ReadinessErr = Nil
               /\ entry.LastUpdate = now
               /\ entry.ptr = 0]_vars

\* a name that had an update applied has been registered again, at a later
\* time and with priority Low
C15_Witness ==
  \E n \in Registered :
    /\ AppliedTo(n) # {} /\ statuses[n].ptr = 0
    /\ statuses[n].LastUpdate > 0
    /\ statuses[n].Priority = PriorityLow

\* C16 as claimed: the priority stored for a name is the one passed to the
\* latest RegisterHealthCheck for it: no step other than a registration
\* changes the priority of an entry.
C16_PriorityOfLatestRegister ==
  [][nRegister' = nRegister =>
       \A n \in DOMAIN statuses : statuses'[n].Priority = statuses[n].Priority]_vars

\* C17 as claimed: after Stop both tasks eventually return, also with the
\* channel full or the scheduler inside UpdateHealth.  Then no state is
\* reachable in which the consumer has returned while the scheduler waits
\* to send on the full channel: nothing receives any more, so in such a
\* state the scheduler waits for ever.
C17_SchedulerNeverStuck ==
  ~(/\ cancelled
    /\ consumer.pc = "done"
    /\ sched.pc = "send"
    /\ Len(updateChannel) = config.UpdateBuffer)

\* the caller p is at the send of UpdateHealth and the channel is full
Blocked(p) == prod[p].pc = "send" /\ Len(updateChannel) = config.UpdateBuffer

\* C18: while the channel is full a caller at the send stays there, with its
\* update; and once the consumer has returned, a caller blocked on the full
\* channel is blocked in every later state.
C18_BlockedWhileFull ==
  /\ [][\A p \in Producers : Blocked(p) => prod'[p] = prod[p]]_vars
  /\ [][\A p \in Producers :
          (Blocked(p) /\ consumer.pc = "done") =>
            (Blocked(p)' /\ consumer'.pc = "done")]_vars

\* Stop was called while a caller waited and the consumer has returned
C18_Witness ==
  /\ cancelled /\ consumer.pc = "done"
  /\ \E p \in Producers : Blocked(p)

\* the updates UpdateHealth has built that are not yet in the store
InFlightUpdates ==
  {prod[p].status : p \in {q \in Producers : prod[q].pc = "send"}}
    \cup {updateChannel[i] : i \in DOMAIN updateChannel}
    \cup (IF consumer.pc = "apply" THEN {consumer.status} ELSE {})

\* UpdateHealth(c, le, re) for a registered c notes c, le, re and the
\* priority the store has for c
C19_CallRule ==
  \A p \in Producers, c \in Checkers, le \in {Nil, "e1"}, re \in {Nil, "e2"} :
    (UpdateHealthRead(p, c, le, re) /\ Name(c) \in DOMAIN statuses) =>
      /\ prod'[p].checker = c
      /\ prod'[p].livenessErr = le /\ prod'[p].readinessErr = re
      /\ prod'[p].priority = statuses[Name(c)].Priority

\* the update a call builds is made of what the call noted and the time
C19_BuildRule ==
  \A p \in Producers :
    (prod[p].pc = "build" /\ prod'[p].pc = "send") =>
      LET call == prod[p]
          u == prod'[p].status
      IN /\ u.Checker = call.checker /\ u.Priority = call.priority
         /\ u.Liveness = (call.livenessErr = Nil)
         /\ u.Readiness = (call.readinessErr = Nil)
         /\ u.LivenessErr = call.livenessErr
         /\ u.ReadinessErr = call.readinessErr
         /\ u.LastUpdate = now
         /\ u \notin InFlightUpdates

\* updates travel unchanged: one in flight was in flight or has just been built
C19_CarryRule ==
  \A u \in InFlightUpdates' :
    u \in InFlightUpdates \/ \E p \in Producers : prod[p].pc = "build" /\ u = prod'[p].status

\* applying an update makes it the entry of its name and changes no other
C19_ApplyRule ==
  (consumer.pc = "apply" /\ consumer'.pc # "apply") =>
    LET name == Name(consumer.status.Checker)
    IN /\ DOMAIN statuses' = DOMAIN statuses \cup {name}
       /\ statuses'[name] = consumer.status
       /\ \A n \in DOMAIN statuses \ {name} : statuses'[n] = statuses[n]

\* C19: the update that UpdateHealth(X, le, re) produces for a registered X
\* has liveness = (le is nil), readiness = (re is nil), the two errors, the
\* time of the call and the priority the store had for X at the call; it
\* reaches the consumer unchanged, and applying it makes it X's entry and
\* leaves every other entry as it was.
C19_AppliedFields ==
  [][C19_CallRule /\ C19_BuildRule /\ C19_CarryRule /\ C19_ApplyRule]_vars

\* an update with a liveness error only, submitted after the clock moved,
\* has been applied next to the untouched entry of another name
C19_Witness ==
  \E n \in Registered, m \in Registered :
    /\ n # m /\ statuses[m].ptr = 0
    /\ statuses[n].ptr > 0 /\ statuses[n].LastUpdate > 0
    /\ ~statuses[n].Liveness /\ statuses[n].Readiness
    /\ statuses[n].LivenessErr = "e1" /\ statuses[n].ReadinessErr = Nil

\* the response to a query result is as the claim says
ResponseMatches(result) ==
  LET response == Handle(result)
  IN IF result[1]
       THEN response = [status |-> "UP"]
       ELSE /\ DOMAIN response = {"status", "details"}
            /\ response.status = "DOWN"
            /\ DOMAIN response.details = DOMAIN result[2]
            /\ \A k \in DOMAIN result[2] : response.details[k] = "DOWN"

\* C20: the encoded response to a failing query has status DOWN and details
\* with exactly the keys of the query's error map, each DOWN; the response
\* to a successful query has status UP and no details.
C20_ResponseOfQuery ==
  \A order \in RangeOrders :
    ResponseMatches(Liveness(order)) /\ ResponseMatches(Readiness(order))

\* a state in which liveness is answered DOWN for db and readiness UP
C20_Witness ==
  /\ Registered = {"db"}
  /\ \A order \in RangeOrders :
       /\ Handle(Liveness(order)) = [status |-> "DOWN", details |-> [k \in {"db"} |-> "DOWN"]]
       /\ Handle(Readiness(order)) = [status |-> "UP"]

(***************************************************************************)
(* The check cycle                                                          *)
(***************************************************************************)
\* the Scheduler takes the next checker of the round
CycleStarts == sched.pc = "cycle" /\ sched.queue # <<>> /\ sched'.queue = Tail(sched.queue)

\* the cycle that starts in this step is skipped, or else goes on to the probes
SkipRule ==
  CycleStarts =>
    LET name == Name(Head(sched.queue))
        currentBackoff == MapGet(backoffTimes, name, 0)
        lastAttempt == MapGet(lastCheckAttempt, name, 0)
    IN IF currentBackoff > 0 /\ now - lastAttempt < currentBackoff
         THEN /\ sched'.pc = "cycle"
              /\ UNCHANGED <<checkCount, updateChannel, backoffTimes, lastCheckAttempt,
                             statuses, nAlloc>>
         ELSE sched'.pc = "attempt"

\* C21: a cycle that starts at `now` with a backoff above 0 and less than the
\* backoff elapsed since the last attempt is skipped entirely: no probe is
\* invoked, nothing is submitted, and backoff, last attempt and store stay
\* as they are; a cycle at which exactly the backoff has elapsed is not
\* skipped and goes on to record the attempt and probe.
C21_SkipWhileInBackoff == [][SkipRule]_vars

\* a cycle has just been skipped: the Scheduler is back at the round's loop
\* with the checker it passed over, whose last attempt is less than the
\* backoff ago
C21_Witness ==
  /\ sched.pc = "cycle" /\ sched.checker # "none"
  /\ sched.backoff > 0
  /\ Name(sched.checker) \in DOMAIN lastCheckAttempt
  /\ sched.t - lastCheckAttempt[Name(sched.checker)] < sched.backoff
  /\ backoffTimes[Name(sched.checker)] = sched.backoff

FactorAtLeastOne == config.BackoffFactor[1] >= config.BackoffFactor[2]

\* C22: when backoffFactor is at least 1 the backoff of every identity is at
\* every moment between 0 and maxBackoff, also after a first failure under a
\* configuration whose checkInterval/2 exceeds maxBackoff; and it is 0
\* whenever the most recent executed cycle of the identity fully succeeded.
C22_BackoffWithinBounds ==
  \A name \in DOMAIN backoffTimes :
    /\ FactorAtLeastOne =>
         backoffTimes[name] >= 0 /\ backoffTimes[name] <= config.MaxBackoff
    /\ (name \in DOMAIN sched.streak /\ sched.streak[name] = 0) =>
         backoffTimes[name] = 0

\* a first failure under checkInterval 4 and maxBackoff 1: the backoff is the
\* cap, not checkInterval/2
C22_Witness ==
  /\ config.CheckInterval = 4 /\ config.MaxBackoff = 1 /\ FactorAtLeastOne
  /\ \E name \in DOMAIN backoffTimes :
       /\ name \in DOMAIN sched.streak /\ sched.streak[name] = 1
       /\ backoffTimes[name] = 1

\* the checker whose cycle the Scheduler's step belongs to
CycleChecker == IF CycleStarts THEN Head(sched.queue) ELSE sched.checker

\* a step changes the backoff or the last attempt of the cycle's identity only
OnlyOwnBackoff ==
  \A n \in Names :
    (\/ MapGet(backoffTimes', n, 0) # MapGet(backoffTimes, n, 0)
     \/ MapGet(lastCheckAttempt', n, -1) # MapGet(lastCheckAttempt, n, -1))
      => /\ sched.pc \in {"attempt", "backoff"}
         /\ n = Name(CycleChecker)

\* the update the Scheduler submits is an update of the cycle's checker
OnlyOwnUpdate ==
  (sched.pc = "send" /\ sched' # sched) =>
    /\ updateChannel' = Append(updateChannel, updateChannel'[Len(updateChannel')])
    /\ updateChannel'[Len(updateChannel')].Checker = sched.checker

\* a cycle, whatever its probes return, leaves the rest of the round as it is
RoundGoesOn ==
  (sched.pc \in {"attempt", "liveness", "readiness", "backoff", "update", "build", "send"}
     /\ sched' # sched)
    => /\ sched'.queue = sched.queue /\ sched'.roster = sched.roster
       /\ sched'.pc \in {"cycle", "attempt", "liveness", "readiness", "backoff", "update",
                         "build", "send"}

\* when a round is over every checker of its roster has had its cycle
RoundCoversRoster ==
  (sched.pc = "wait" \/ (sched.pc = "cycle" /\ sched.queue = <<>>)) =>
    sched.cycled = sched.roster

\* C23: a cycle for c, skipped, failed or successful, leaves the backoff and
\* the last attempt of every other identity unchanged and submits an update
\* for c only; and a failing probe does not keep the Scheduler from the
\* remaining checkers of the round: the round ends with a cycle attempted for
\* every checker of its roster, and the Scheduler then waits for the next
\* tick.
C23_CyclesAreIndependent ==
  /\ [][OnlyOwnBackoff /\ OnlyOwnUpdate /\ RoundGoesOn]_vars
  /\ []RoundCoversRoster

\* a round over two checkers has ended: the first one cycled failed and is in
\* backoff, the other was probed all the same
C23_Witness ==
  /\ sched.pc = "wait" /\ sched.roster = Checkers /\ sched.cycled = Checkers
  /\ \E c, d \in Checkers :
       /\ c # d
       /\ Name(c) \in DOMAIN backoffTimes /\ backoffTimes[Name(c)] > 0
       /\ checkCount[d] = 2 /\ checkCount[c] = 2
       /\ Name(d) \in DOMAIN backoffTimes /\ backoffTimes[Name(d)] = 0

\* the updates of c that have left the Scheduler: applied, or on their way
SubmittedFor(c) == Cardinality(AppliedTo(Name(c)) \cup InFlight(Name(c)))

\* the probes of c invoked by the cycle in progress
ProbesInCycle(c) ==
  IF sched.checker # c THEN 0
  ELSE IF sched.pc = "readiness" THEN 1
  ELSE IF sched.pc \in {"backoff", "update", "build", "send"} THEN 2
  ELSE 0

\* every probe invoked belongs to a cycle that has submitted or is about to:
\* two probes for each update submitted
TwoProbesPerUpdate ==
  \A c \in Checkers : checkCount[c] = 2 * SubmittedFor(c) + ProbesInCycle(c)

\* when the cycle comes to submit, the backoff already reflects its probes
BackoffBeforeSubmit ==
  sched.pc \in {"update", "build", "send"} =>
    /\ Name(sched.checker) \in DOMAIN backoffTimes
    /\ backoffTimes[Name(sched.checker)] =
         BackoffRule(sched.backoff, sched.livenessErr # Nil \/ sched.readinessErr # Nil)

\* the update submitted carries the two results of the cycle's probes
SubmitCarriesBoth ==
  (sched.pc = "send" /\ sched' # sched) =>
    LET u == updateChannel'[Len(updateChannel')]
    IN /\ Len(updateChannel') = Len(updateChannel) + 1
       /\ u.Checker = sched.checker
       /\ u.LivenessErr = sched.livenessErr /\ u.ReadinessErr = sched.readinessErr
       /\ u.Liveness = (sched.livenessErr = Nil)
       /\ u.Readiness = (sched.readinessErr = Nil)

\* a skipped cycle invokes no probe and leaves the channel alone
SkipSubmitsNothing ==
  (CycleStarts /\ sched'.pc = "cycle") => UNCHANGED <<checkCount, updateChannel, nAlloc>>

\* C24: every executed cycle invokes both probes exactly once and then
\* submits exactly one update for c that carries both results, after the
\* backoff state has been updated; a skipped cycle submits nothing; so the
\* number of updates the Scheduler submits for c is the number of executed
\* cycles for c.
C24_OneUpdatePerExecutedCycle ==
  /\ [](TwoProbesPerUpdate /\ BackoffBeforeSubmit)
  /\ [][SubmitCarriesBoth /\ SkipSubmitsNothing]_vars

\* three rounds are over, one of them skipped: four probes, two updates
C24_Witness ==
  /\ sched.pc = "wait" /\ sched.round = 3
  /\ checkCount["c1"] = 4
  /\ Cardinality(AppliedTo("db")) = 2 /\ InFlight("db") = {}

\* the Scheduler is inside a probe of the checker it is cycling
InProbe == sched.pc \in {"liveness", "readiness"}

\* as long as the probe does not return the Scheduler does not move: the same
\* checker, the same rest of the round, the same round, and no backoff write
WaitsForProbe ==
  (InProbe /\ checkCount' = checkCount) =>
    /\ sched' = sched
    /\ UNCHANGED <<backoffTimes, lastCheckAttempt, ticker.on>>

\* C26: while a probe of c has not returned the Scheduler stays in c's cycle:
\* no step attempts a later checker of the round or begins a later round, and
\* after stop() the Scheduler still cannot return; this lasts for as long as
\* the probe does not return, so for ever if it never does.
C26_ProbeHoldsScheduler ==
  /\ [][WaitsForProbe]_vars
  /\ [](InProbe => ~ENABLED AutoUpdateDone)

\* stop() has been called and the consumer has returned while the Scheduler
\* is in the first probe of a round that has another checker to go
C26_Witness ==
  /\ cancelled /\ consumer.pc = "done"
  /\ sched.pc = "liveness" /\ sched.queue # <<>>

(***************************************************************************)
(* Queries                                                                  *)
(***************************************************************************)
\* the age of the record of n
Age(n) == now - statuses[n].LastUpdate

\* what a query reports for the name it names: the expiry error when the
\* record is older than the expiry time, the recorded error of the axis
\* otherwise, also at the age of exactly the expiry time
ReportRule(r, n, recorded) ==
  n \in DOMAIN r[2] =>
    r[2][n] = IF Age(n) > ExpiryTime THEN ErrHealthCheckExpired ELSE recorded

\* a record of exactly the expiry time's age whose axis is true is not reported
NotYetExpired(r, n, axis) ==
  (Age(n) = ExpiryTime /\ axis) => n \notin DOMAIN r[2]

\* C29: a query tests the age of a record before its axis: a checker that is
\* expired and whose axis is false is reported with the expiry error, not
\* with the recorded one; and the test is strict: a record whose age is
\* exactly the expiry time is not expired, it is reported only if its axis is
\* false and then with its recorded error.
C29_ExpiryFirstAndStrict ==
  \A order \in RangeOrders, n \in Registered :
    /\ ReportRule(Liveness(order), n, statuses[n].LivenessErr)
    /\ ReportRule(Readiness(order), n, statuses[n].ReadinessErr)
    /\ NotYetExpired(Liveness(order), n, statuses[n].Liveness)
    /\ NotYetExpired(Readiness(order), n, statuses[n].Readiness)

\* the applied update UpdateHealth(X, e1, nil) has expired: GetLiveness
\* reports X with the expiry error although e1 is recorded
C29_Witness ==
  \E n \in Registered, order \in RangeOrders :
    /\ Age(n) > ExpiryTime
    /\ statuses[n].ptr > 0 /\ ~statuses[n].Liveness /\ statuses[n].LivenessErr = "e1"
    /\ Liveness(order) = <<FALSE, n :> ErrHealthCheckExpired>>

\* a step of the task that calls the queries
QueryStep == query' # query

\* the call leaves everything but what it returns as it was
PureRead ==
  QueryStep => UNCHANGED <<statuses, updateChannel, checkers, backoffTimes,
                           lastCheckAttempt>>

\* what the call returns is the verdict of the present store at the present
\* time, the same under every order in which the map may be iterated
VerdictOfState ==
  QueryStep =>
    \A order \in RangeOrders :
      /\ query'.liveness # NoResult /\ query.pc = "idle"
           => query'.liveness[1] = Liveness(order)[1]
      /\ query'.readiness # NoResult /\ query'.pc = "idle"
           => query'.readiness[1] = Readiness(order)[1]

\* the verdict does not depend on the iteration order
OneVerdict ==
  \A o1, o2 \in RangeOrders :
    Liveness(o1)[1] = Liveness(o2)[1] /\ Readiness(o1)[1] = Readiness(o2)[1]

\* C27: GetLiveness, GetReadiness and GetOverallHealth are pure reads: a call
\* leaves the store, the update channel, the roster, the backoff and the last
\* attempts unchanged; and the verdict is a function of the store and the
\* time: two queries on the same store at the same time return the same
\* verdict.
C27_QueriesArePureReads == [][PureRead /\ VerdictOfState]_vars /\ []OneVerdict

\* GetLiveness has returned false on a store in which two checkers of one
\* tier fail, so that the error named depends on the iteration order while
\* the verdict does not
C27_Witness ==
  /\ query.op = "GetLiveness" /\ query.liveness # NoResult /\ ~query.liveness[1]
  /\ \E o1, o2 \in RangeOrders :
       /\ Liveness(o1)[2] # Liveness(o2)[2]
       /\ query.liveness = Liveness(o1)

\* the callback runs after the write and outside the lock: the entry is the
\* update it is called for, unless the name has been registered again since
CallbackAfterWrite ==
  consumer.pc = "callback" =>
    LET n == Name(consumer.status.Checker)
    IN /\ mu = Free
       /\ n \in Registered
       /\ statuses[n] = consumer.status \/ statuses[n].ptr = 0

\* a query called during the callback is not held up
QueryCompletes ==
  consumer.pc = "callback" =>
    \A order \in RangeOrders :
      /\ query.pc = "idle" =>
           /\ ENABLED GetLivenessCall(order)
           /\ ENABLED GetReadinessCall(order)
           /\ ENABLED GetOverallHealthLiveness(order)
      /\ query.pc = "readiness" => ENABLED GetOverallHealthReadiness(order)

\* C28: when the callback of an update runs, the update has replaced the
\* store entry and the consumer holds no lock on the store, so a query made
\* from the callback completes and sees that update or a later write of the
\* entry; and a query can be in progress while a callback is.
C28_CallbackOutsideLock == CallbackAfterWrite /\ QueryCompletes

\* GetOverallHealth is between its two halves while the callback of an
\* applied update runs
C28_Witness ==
  /\ consumer.pc = "callback" /\ query.pc = "readiness"
  /\ statuses[Name(consumer.status.Checker)] = consumer.status

(***************************************************************************)
(* Who writes what                                                          *)
(***************************************************************************)
\* the backoff or a last attempt is written
BackoffWritten == backoffTimes' # backoffTimes \/ lastCheckAttempt' # lastCheckAttempt

\* only a step of the Scheduler inside a check cycle writes them
BackoffWriter ==
  BackoffWritten => sched.pc \in {"attempt", "backoff"} /\ sched' # sched

\* a registration, a call of UpdateHealth, a step of the consumer, a query
\* and Stop leave them as they are
OthersKeepBackoff ==
  (\/ nRegister' # nRegister
   \/ nSubmit' # nSubmit \/ prod' # prod
   \/ consumer' # consumer
   \/ query' # query
   \/ cancelled' # cancelled) => ~BackoffWritten

\* an entry of the store is written by a registration or by the consumer
\* applying an update
StatusWriter ==
  statuses' # statuses =>
    \/ nRegister' # nRegister
    \/ consumer.pc = "apply" /\ consumer'.pc # "apply"

\* C30: the backoff and the last attempts are changed by the Scheduler's
\* check cycle only: registering (also an identity that is in backoff),
\* submitting, applying an update, querying and stopping leave them
\* unchanged, so that a success submitted by hand for X does not end the
\* backoff of X; and the entries of the store change through a registration
\* or the application of an update only.
C30_BackoffOwnedByScheduler == [][BackoffWriter /\ OthersKeepBackoff /\ StatusWriter]_vars

\* the one cycle executed for X failed and X is in backoff; a success
\* submitted by hand has been applied since, and the backoff is still there
C30_Witness ==
  /\ "db" \in DOMAIN backoffTimes /\ backoffTimes["db"] > 0
  /\ checkCount["c1"] = 2 /\ sched.pc = "wait"
  /\ nSubmit >= 1 /\ InFlight("db") = {}
  /\ "db" \in Registered
  /\ statuses["db"].ptr > 0 /\ statuses["db"].Liveness /\ statuses["db"].Readiness

\* the checkers registered now
Roster == {checkers[n] : n \in DOMAIN checkers}

\* a round begins with the roster of that moment
FreshSnapshot ==
  sched'.round # sched.round =>
    /\ sched'.roster = Roster
    /\ {sched'.queue[i] : i \in DOMAIN sched'.queue} = Roster
    /\ Len(sched'.queue) = Cardinality(Roster)

\* C25: the Scheduler copies the roster anew when a round begins, and a round
\* attempts a cycle for every checker of its copy; so on an aggregator that
\* is started and never stopped, whose probes return and whose channel is
\* drained, every registered checker, also one registered after Start, is
\* eventually probed.
C25_EveryCheckerProbed ==
  /\ [][FreshSnapshot]_vars
  /\ []RoundCoversRoster
  /\ \A c \in Checkers : (started /\ c \in Roster) ~> (checkCount[c] > 0)

\* the second round is over: the first checker has been probed in both
\* rounds, the other one, registered after the first snapshot, in the second
C25_Witness ==
  /\ sched.round = 2 /\ sched.pc = "wait" /\ sched.roster = Checkers
  /\ \E c, d \in Checkers : checkCount[c] = 4 /\ checkCount[d] = 2

(***************************************************************************)
(* The entries of the store                                                 *)
(***************************************************************************)
\* C31: in every entry of the store each axis is true exactly when the error
\* recorded for it is nil, so that a query which reports a name that is not
\* expired carries an error that is not nil.
C31_AxisIffNoError ==
  /\ \A n \in Registered :
       /\ statuses[n].Liveness <=> statuses[n].LivenessErr = Nil
       /\ statuses[n].Readiness <=> statuses[n].ReadinessErr = Nil
  /\ \A order \in RangeOrders :
       \A r \in {Liveness(order), Readiness(order)} :
         \A n \in DOMAIN r[2] : ~Stale(n) => r[2][n] # Nil

\* the LastUpdate of an entry does not go back in a step
LastUpdateStep ==
  \A n \in DOMAIN statuses \cap DOMAIN statuses' :
    statuses'[n].LastUpdate >= statuses[n].LastUpdate

\* C34: the LastUpdate stored for a name never decreases: every update
\* applied and every registration carries a timestamp at least as large as
\* the one it replaces, whatever the interleaving of callers, Scheduler and
\* registrations.
C34_LastUpdateMonotonic == [][LastUpdateStep]_vars

(***************************************************************************)
(* The Scheduler's attempts and locks                                       *)
(***************************************************************************)
\* while the probes of a cycle are invoked the attempt is already recorded,
\* with the time at which the cycle started
AttemptRecorded ==
  InProbe =>
    /\ Name(sched.checker) \in DOMAIN lastCheckAttempt
    /\ lastCheckAttempt[Name(sched.checker)] = sched.t
    /\ sched.t <= now

\* a cycle that is executed while a backoff b is stored starts at least b
\* after the start of the executed cycle before it
BackoffRespected ==
  sched.pc = "attempt" =>
    LET name == Name(sched.checker)
        b == MapGet(backoffTimes, name, 0)
    IN /\ sched.t <= now
       /\ (b > 0 /\ name \in DOMAIN lastCheckAttempt) =>
            sched.t - lastCheckAttempt[name] >= b

\* C35: the last attempt of c is set to the time at which the cycle started
\* before either probe of c is invoked; of two consecutive executed cycles of
\* c of which the earlier failed and left the backoff b, the later starts at
\* least b after the earlier started; so the Scheduler invokes no probe of c
\* during the backoff window.
C35_AttemptBeforeProbes == AttemptRecorded /\ BackoffRespected

\* the Scheduler is in the first probe of an executed cycle that followed a
\* failed one, after a round in which the cycle was skipped
C35_Witness ==
  /\ sched.pc = "liveness" /\ sched.backoff > 0
  /\ lastCheckAttempt[Name(sched.checker)] = sched.t
  /\ sched.round > checkCount[sched.checker] \div 2 + 1

\* the Scheduler is in a probe, or in the send of UpdateHealth
ProbeOrSend == InProbe \/ sched.pc = "send"

\* what the other tasks can do at that moment
OthersCanLock ==
  /\ mu = Free
  /\ \A p \in {PriorityCritical, PriorityLow} : ENABLED RegisterHealthCheck("c1", p)
  /\ \A order \in RangeOrders : ENABLED GetLivenessCall(order)
  /\ \A p \in Producers :
       prod[p].pc = "idle" => ENABLED UpdateHealthRead(p, "c1", Nil, Nil)
  /\ consumer.pc = "apply" => ENABLED ProcessApply

\* C36: the Scheduler holds no lock of the store while a probe is invoked or
\* while its send waits for room in the channel: in every such state a
\* registration, a query, a call of UpdateHealth and the consumer's write can
\* take the lock and complete.
C36_NoLockDuringProbe == ProbeOrSend => OthersCanLock

\* the Scheduler's send waits on a full channel while the consumer is about
\* to write the update it has received
C36_Witness ==
  /\ sched.pc = "send" /\ Len(updateChannel) = config.UpdateBuffer
  /\ consumer.pc = "apply"
  /\ \A p \in Producers : prod[p].pc = "idle"

(***************************************************************************)
(* GetOverallHealth                                                         *)
(***************************************************************************)
\* GetOverallHealth returns in this step
OverallReturns == query.pc = "readiness" /\ query'.pc = "idle"

\* the pair returned is the pair of verdicts of the store st, each taken at
\* the time of its read
PairOf(st, order) ==
  /\ query'.liveness[1] = GetLiveness(st, query.at.now, order)[1]
  /\ query'.readiness[1] = GetReadiness(st, now, order)[1]

\* when the store was written at most once between the two reads, so that it
\* was in no other state than the one of the first read and the present one,
\* the pair returned is the pair of one of the two
OnePairOneStore ==
  (OverallReturns /\ nRegister + Len(applied) <= query.at.writes + 1) =>
    \E st \in {query.at.statuses, statuses} :
      \E order \in Orders(DOMAIN st) : PairOf(st, order)

\* C33: GetOverallHealth returns a liveness verdict and a readiness verdict
\* of one and the same state of the store: no update or registration is
\* applied between its two reads in such a way that the pair returned is the
\* pair of no state the store was in.
C33_OverallHealthOneStore == [][OnePairOneStore]_vars

(***************************************************************************)
(* Start called more than once                                              *)
(***************************************************************************)
\* a processUpdates goroutine that has been launched and has not returned
Running(task) == task.pc \notin {"idle", "done"}

\* C32: whatever the calls of Start and Stop, at most one processUpdates
\* goroutine runs at any time: a second Start launches no second consumer, so
\* that updates are applied by one consumer only.
C32_OneConsumer == ~(Running(consumer) /\ Running(consumer2))

====
